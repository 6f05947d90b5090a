--------------------------- MODULE ContainersProofs ---------------------------
(* Proofs that the list stays linked both ways and the queue owns its      *)
(* memory, that the two implement Sequence, and that the allocators give   *)
(* no memory out twice, for any nodes, cells and items and for pools and   *)
(* areas of any size, whatever the sequence of calls.                      *)
(*                                                                         *)
(* The invariants: some sequence of nodes is the order of the list's       *)
(* pointers (ListInv); some row of nodes, with an item each, is the        *)
(* queue, apart from what was handed out (QueueInv).  The steps are        *)
(* proved on the sequences of their items, which are what Sequence sees.   *)
EXTENDS Containers, FiniteSetTheorems, SequenceTheorems, NaturalsInduction,
        WellFoundedInduction, TLAPS

(* The lemmas about lists, of this module's nodes and items.               *)
LP == INSTANCE LinkedListProofs WITH Labels <- Items

(* Remainders.                                                             *)
LEMMA ModSame == ASSUME NEW m \in Nat \ {0}, NEW x \in 0..m-1
                 PROVE  x % m = x
  OBVIOUS

LEMMA ModRange == ASSUME NEW m \in Nat \ {0}, NEW x \in Nat
                  PROVE  x % m \in Nat
  OBVIOUS

(* Of the pool: the bits that are set are those of the blocks in use and   *)
(* of the blocks lost from the start.                                      *)
Marks ==
  /\ taken \subseteq A!Blocks
  /\ marks = taken \cup lost /\ taken \cap lost = {}

(* Of the bump allocator: as long as no request wrapped around, what was   *)
(* given out lies below the cursor.                                        *)
Disjoint(set) ==
  \A a, b \in set : a = b \/ a.at + a.size <= b.at \/ b.at + b.size <= a.at
Areas ==
  /\ cursor \in Nat /\ wrapped \in BOOLEAN
  /\ areas \subseteq [at : Nat, size : Nat]
  /\ ~wrapped =>
       /\ Base <= cursor /\ cursor <= Base + BumpSize
       /\ \A a \in areas : Base <= a.at /\ a.at + a.size <= cursor
       /\ Disjoint(areas)

-----------------------------------------------------------------------------
(* Marking the first free bit, or clearing one that was marked, keeps the  *)
(* pool's bits those of the blocks in use and of the lost ones.            *)
LEMMA PoolStep == Marks /\ [Next]_vars => Marks'
<1> SUFFICES ASSUME Marks, [Next]_vars PROVE Marks'
  OBVIOUS
<1> USE DEF Marks, A!Blocks
<1>1. CASE PoolAlloc
  <2>1. PICK b \in A!Blocks : /\ A!FirstFree(marks, b)
                              /\ marks' = A!Marked(marks, b)
                              /\ taken' = taken \cup {b}
    BY <1>1 DEF PoolAlloc
  <2>2. lost' = lost
    BY <1>1 DEF PoolAlloc
  <2> QED
    BY <2>1, <2>2 DEF A!FirstFree, A!Marked
<1>2. ASSUME NEW b \in taken \cup {PoolSize}, PoolFree(b) PROVE Marks'
  <2>1. lost' = lost /\ taken' = taken \ {b} /\ marks' = A!Cleared(marks, b)
    BY <1>2 DEF PoolFree
  <2>2. CASE b \in taken
    <3>1. b \in 0..PoolSize-1 /\ PoolSize \in Nat
      BY <2>2, ContainersAssumption
    <3>2. A!InBounds(b)
      BY <3>1 DEF A!InBounds
    <3> QED
      BY <2>1, <2>2, <3>2 DEF A!Cleared
  <2>3. CASE b = PoolSize
    <3>1. ~A!InBounds(b) /\ b \notin taken
      BY <2>3, ContainersAssumption DEF A!InBounds
    <3> QED
      BY <2>1, <3>1 DEF A!Cleared
  <2> QED
    BY <2>2, <2>3
<1>3. CASE UNCHANGED pool
  BY <1>3 DEF pool
<1>4. Next => \/ PoolAlloc \/ UNCHANGED pool
              \/ \E b \in taken \cup {PoolSize} : PoolFree(b)
  BY DEF Next, Push, Pop, Move, Enqueue, Dequeue, Release, Clear, BumpAlloc, BumpReset
<1> QED
  BY <1>1, <1>2, <1>3, <1>4 DEF vars

(* A new area starts at the cursor, above all others, and ends at the next *)
(* one, within the memory of the allocator.                                *)
LEMMA AllocStep == ASSUME Areas, NEW n \in Requests, BumpAlloc(n) PROVE Areas'
<1> DEFINE new == [at |-> cursor, size |-> n]
<1>1. n \in Nat /\ cursor \in Nat /\ Space \in Nat \ {0} /\ Base \in Nat /\ BumpSize \in Nat
  BY ContainersAssumption DEF Areas
<1>2. /\ cursor' = (cursor + n) % Space /\ cursor' <= Base + BumpSize
      /\ areas' = areas \cup {new}
      /\ wrapped' = (wrapped \/ cursor + n >= Space)
  BY DEF BumpAlloc, A!Fits, A!Next, A!End
<1>3. new \in [at : Nat, size : Nat] /\ new.at = cursor /\ new.size = n
  BY <1>1
<1>4. cursor' \in Nat
  BY <1>1, <1>2, ModRange
<1>5. wrapped' \in BOOLEAN
  BY <1>2
<1>6. areas' \subseteq [at : Nat, size : Nat]
  BY <1>2, <1>3 DEF Areas
<1>7. ASSUME ~wrapped'
      PROVE  /\ Base <= cursor' /\ cursor' <= Base + BumpSize
             /\ \A a \in areas' : Base <= a.at /\ a.at + a.size <= cursor'
             /\ Disjoint(areas')
  <2>1. ~wrapped /\ ~(cursor + n >= Space)
    BY <1>2, <1>7, Zenon
  <2>2. ~wrapped /\ cursor + n \in 0..Space-1
    BY <1>1, <2>1
  <2>3. cursor' = cursor + n
    BY <1>1, <1>2, <2>2, ModSame
  <2>4. Base <= cursor
    BY <2>2 DEF Areas
  <2>5. \A a \in areas : a.at \in Nat /\ a.size \in Nat /\ Base <= a.at /\ a.at + a.size <= cursor
    BY <2>2 DEF Areas
  <2>6. \A a \in areas' : Base <= a.at /\ a.at + a.size <= cursor'
    BY <1>1, <1>2, <1>3, <2>3, <2>4, <2>5
  <2>7. Disjoint(areas')
    BY <1>2, <1>3, <2>2, <2>5 DEF Areas, Disjoint
  <2> QED
    BY <1>1, <1>2, <2>3, <2>4, <2>6, <2>7
<1> QED
  BY <1>4, <1>5, <1>6, <1>7 DEF Areas

(* Every step keeps the areas apart.                                       *)
LEMMA BumpStep == Areas /\ [Next]_vars => Areas'
<1> SUFFICES ASSUME Areas, [Next]_vars PROVE Areas'
  OBVIOUS
<1>1. CASE BumpReset
  <2>1. cursor' = Base /\ areas' = {} /\ wrapped' = FALSE
    BY <1>1 DEF BumpReset
  <2>2. Base \in Nat /\ Base <= Base + BumpSize
    BY ContainersAssumption
  <2>3. wrapped' \in BOOLEAN /\ areas' \subseteq [at : Nat, size : Nat] /\ Disjoint(areas')
    BY <2>1 DEF Disjoint
  <2>4. cursor' \in Nat /\ Base <= cursor' /\ cursor' <= Base + BumpSize
    BY <2>1, <2>2
  <2>5. \A a \in areas' : Base <= a.at /\ a.at + a.size <= cursor'
    BY <2>1
  <2> QED
    BY <2>3, <2>4, <2>5 DEF Areas
<1>2. CASE UNCHANGED bump
  BY <1>2 DEF bump, Areas, Disjoint
<1>3. Next => \/ BumpReset \/ UNCHANGED bump \/ \E n \in Requests : BumpAlloc(n)
  BY DEF Next, Push, Pop, Move, Enqueue, Dequeue, Release, Clear, PoolAlloc, PoolFree
<1>4. ASSUME NEW n \in Requests, BumpAlloc(n) PROVE Areas'
  BY <1>4, AllocStep
<1>5. UNCHANGED vars => UNCHANGED bump
  BY DEF vars
<1>6. BumpReset \/ UNCHANGED bump \/ \E n \in Requests : BumpAlloc(n)
  BY <1>3, <1>5, Zenon
<1> QED
  BY <1>1, <1>2, <1>4, <1>6, Zenon

-----------------------------------------------------------------------------
(* Memory given out by the pool or by the bump allocator is not given out  *)
(* again before it is given back, unless a request wraps around            *)
(* (GivenOnce), for every size of either.                                  *)
THEOREM NeverGivenTwice == Spec => []GivenOnce
<1>1. Init => Marks /\ Areas
  <2> SUFFICES ASSUME Init PROVE Marks /\ Areas
    OBVIOUS
  <2>1. Marks
    BY DEF Init, Marks, A!CreatedPools
  <2>2. cursor = Base /\ areas = {} /\ wrapped = FALSE
    BY DEF Init
  <2>3. Base \in Nat /\ Base <= Base + BumpSize
    BY ContainersAssumption
  <2>4. wrapped \in BOOLEAN /\ areas \subseteq [at : Nat, size : Nat] /\ Disjoint(areas)
    BY <2>2 DEF Disjoint
  <2>5. cursor \in Nat /\ Base <= cursor /\ cursor <= Base + BumpSize
    BY <2>2, <2>3
  <2>6. \A a \in areas : Base <= a.at /\ a.at + a.size <= cursor
    BY <2>2
  <2>7. Areas
    BY <2>4, <2>5, <2>6 DEF Areas
  <2> QED
    BY <2>1, <2>7
<1>2. Marks /\ Areas /\ [Next]_vars => (Marks /\ Areas)'
  BY PoolStep, BumpStep
<1>3. Marks /\ Areas => GivenOnce
  <2> SUFFICES ASSUME Marks, Areas PROVE GivenOnce
    OBVIOUS
  <2>1. ASSUME ~wrapped, NEW a \in areas
        PROVE  Base <= a.at /\ a.at + a.size <= Base + BumpSize
    BY <2>1, ContainersAssumption DEF Areas
  <2> QED
    BY <2>1 DEF Marks, Areas, Disjoint, GivenOnce
<1> QED
  BY <1>1, <1>2, <1>3, PTL DEF Spec

-----------------------------------------------------------------------------
(* Sequences.                                                              *)

(* Functions on 1..k are sequences.                                        *)
LEMMA SequenceIs ==
  ASSUME NEW V, NEW k \in Nat, NEW s \in [1..k -> V]
  PROVE  s \in Seq(V) /\ Len(s) = k /\ DOMAIN s = 1..k
  <1>1. s \in Seq(V)
    BY SeqDef
  <1>2. DOMAIN s = 1..k
    OBVIOUS
  <1> QED
    BY <1>1, <1>2

(* Two sequences with the same elements are the same.                      *)
LEMMA SameSequence ==
  ASSUME NEW V, NEW f \in Seq(V), NEW g \in Seq(V), NEW k \in Nat, Len(f) = k, Len(g) = k,
         \A i \in 1..k : f[i] = g[i]
  PROVE  f = g
  BY SeqEqual

\* c is the m elements of a and then the p of b.
Concatenated(V, a, b, m, p, c) ==
  /\ c \in Seq(V) /\ Len(c) = m + p
  /\ \A i \in 1..m + p : c[i] = IF i <= m THEN a[i] ELSE b[i - m]

(* Concatenation, element by element.                                      *)
LEMMA ConcatIs ==
  ASSUME NEW V, NEW a \in Seq(V), NEW b \in Seq(V), NEW m \in Nat, NEW p \in Nat,
         Len(a) = m, Len(b) = p
  PROVE  Concatenated(V, a, b, m, p, a \o b)
  BY DEF Concatenated

-----------------------------------------------------------------------------
(* The list.                                                               *)

(* The operations as Containers and as the lemmas name them.               *)
LEMMA SameLists ==
  /\ L!Created = LP!Created
  /\ \A l, n, x : /\ L!PushFront(l, n, x) = LP!PushFront(l, n, x)
                  /\ L!PushBack(l, n, x) = LP!PushBack(l, n, x)
  /\ \A l : L!PopHead(l) = LP!PopHead(l) /\ L!PopTail(l) = LP!PopTail(l)
  /\ \A l, n : L!MoveToFront(l, n) = LP!MoveToFront(l, n)
  /\ \A f, n, k : L!Chain(f, n, k) = LP!Chain(f, n, k)
  /\ \A l, s : L!Linked(l, s) <=> LP!Linked(l, s)
<1> USE DEF L!Touch, LP!Touch, L!With, LP!With, L!Field, LP!Field, L!Free, LP!Free
<1>1. L!Created = LP!Created
  BY DEF L!Created, LP!Created
<1>2. \A l, n, x : L!PushFront(l, n, x) = LP!PushFront(l, n, x)
  BY DEF L!PushFront, LP!PushFront
<1>3. \A l, n, x : L!PushBack(l, n, x) = LP!PushBack(l, n, x)
  BY DEF L!PushBack, LP!PushBack
<1>4. \A l : L!PopHead(l) = LP!PopHead(l)
  BY DEF L!PopHead, LP!PopHead
<1>5. \A l : L!PopTail(l) = LP!PopTail(l)
  BY DEF L!PopTail, LP!PopTail
<1>6. \A l, n : L!MoveToFront(l, n) = LP!MoveToFront(l, n)
  BY DEF L!MoveToFront, LP!MoveToFront
<1>7. \A f, n, k : L!Chain(f, n, k) = LP!Chain(f, n, k)
  BY DEF L!Chain, LP!Chain
<1>8. \A l, s : L!Linked(l, s) <=> LP!Linked(l, s)
  BY DEF L!Linked, LP!Linked
<1> QED
  BY <1>1, <1>2, <1>3, <1>4, <1>5, <1>6, <1>7, <1>8

(* The items of the nodes s, first to last.                                *)
ListItems(l, s) == [i \in 1..l.length |-> l.data[s[i]]]

(* Some order of the nodes is that of the pointers, both ways, and f are   *)
(* the items in that order.                                                *)
Lists(l, f) ==
  l \in LP!List /\ ~l.bad /\ \E s : LP!Ordered(l, s) /\ f = ListItems(l, s)

\* Elements of the sequences of items.
Datum == Items \cup {None}

(* What is used of an ordered list.                                        *)
LEMMA OrderedIs ==
  ASSUME NEW l \in LP!List, NEW s, LP!Ordered(l, s)
  PROVE  /\ l.length \in Nat /\ s \in [1..l.length -> Nodes]
         /\ l.live = {s[i] : i \in 1..l.length}
         /\ \A i \in 1..l.length : l.data[s[i]] \in Datum
         /\ \A i, j \in 1..l.length : s[i] = s[j] => i = j
         /\ l.length # 0 => l.head = s[1] /\ l.tail = s[l.length]
  <1>1. /\ l.length \in Nat /\ s \in [1..l.length -> Nodes]
        /\ l.live = {s[i] : i \in 1..l.length}
        /\ \A i, j \in 1..l.length : s[i] = s[j] => i = j
        /\ l.length # 0 => l.head = s[1] /\ l.tail = s[l.length]
    BY DEF LP!Ordered, LP!Linked
  <1>2. \A m \in Nodes : l.data[m] \in Datum
    BY DEF LP!List, Datum
  <1> QED
    BY <1>1, <1>2

(* The items are a sequence.                                               *)
LEMMA ListItemsIs ==
  ASSUME NEW l \in LP!List, NEW s, LP!Ordered(l, s)
  PROVE  /\ ListItems(l, s) \in Seq(Datum) /\ Len(ListItems(l, s)) = l.length
         /\ DOMAIN ListItems(l, s) = 1..l.length
         /\ \A i \in 1..l.length : ListItems(l, s)[i] = l.data[s[i]]
  <1>1. l.length \in Nat /\ \A i \in 1..l.length : l.data[s[i]] \in Datum
    BY OrderedIs
  <1>2. /\ ListItems(l, s) \in [1..l.length -> Datum]
        /\ \A i \in 1..l.length : ListItems(l, s)[i] = l.data[s[i]]
    BY <1>1 DEF ListItems
  <1> QED
    BY <1>1, <1>2, SequenceIs

(* A sequence with k items that are those of the list r, one by one.       *)
LEMMA SameItems ==
  ASSUME NEW r \in LP!List, ~r.bad, NEW t, LP!Ordered(r, t),
         NEW g \in Seq(Datum), Len(g) = r.length,
         \A i \in 1..r.length : g[i] = r.data[t[i]]
  PROVE  Lists(r, g)
  <1> DEFINE h == ListItems(r, t)  k == r.length
  <1>1. /\ h \in Seq(Datum) /\ Len(h) = k
        /\ \A i \in 1..k : h[i] = r.data[t[i]]
    BY ListItemsIs
  <1>2. k \in Nat
    BY OrderedIs
  <1>3. \A i \in 1..k : g[i] = h[i]
    BY <1>1
  <1> HIDE DEF h
  <1>4. g = h
    <2> HIDE DEF k
    <2>1. Len(g) = k
      BY DEF k
    <2> QED
      BY <1>1, <1>2, <1>3, <2>1, SameSequence
  <1> QED
    BY <1>4 DEF Lists, h

(* push_front puts the item before the others.                             *)
LEMMA PushFrontLists ==
  ASSUME NEW l, NEW f, Lists(l, f), NEW x \in Items, NEW n \in Nodes \ l.live,
         NEW r, r = LP!PushFront(l, n, x)
  PROVE  Lists(r, <<x>> \o f)
  <1> DEFINE k == l.length
  <1>1. PICK s : LP!Ordered(l, s) /\ f = ListItems(l, s)
    BY DEF Lists
  <1>2. /\ l \in LP!List /\ ~l.bad /\ None \notin Nodes
        /\ k \in Nat /\ s \in [1..k -> Nodes]
        /\ \A i \in 1..k : s[i] \in l.live
    BY <1>1, OrderedIs, ContainersAssumption DEF Lists
  <1>3. /\ f \in Seq(Datum) /\ Len(f) = k
        /\ \A i \in 1..k : f[i] = l.data[s[i]]
    BY <1>1, <1>2, ListItemsIs
  <1>4. x \in Datum
    BY DEF Datum
  <1> DEFINE t == [i \in 1..k + 1 |-> IF i = 1 THEN n ELSE s[i - 1]]
             g == <<x>> \o f
  <1>5. /\ t \in [1..k + 1 -> Nodes]
        /\ \A i \in 1..k + 1 : t[i] = IF i = 1 THEN n ELSE s[i - 1]
    BY <1>2
  <1> HIDE DEF t
  <1>6. LP!Ordered(r, t) /\ r.bad = l.bad
    BY <1>1, <1>2, <1>5, LP!PushFrontOrders
  <1>7. /\ r \in LP!List /\ r.length = l.length + 1
        /\ \A m \in Nodes : r.data[m] = IF m = n THEN x ELSE l.data[m]
    BY <1>2, LP!PushFrontFields
  <1>8. /\ g \in Seq(Datum) /\ Len(g) = k + 1
        /\ \A i \in 1..k + 1 : g[i] = IF i = 1 THEN x ELSE f[i - 1]
    BY <1>2, <1>3, <1>4
  <1> HIDE DEF g
  <1>9. ASSUME NEW i \in 1..k + 1 PROVE g[i] = r.data[t[i]]
    <2>1. CASE i = 1
      BY <1>5, <1>7, <1>8, <2>1
    <2>2. CASE i # 1
      <3>1. i - 1 \in 1..k
        BY <1>2, <2>2
      <3>2. t[i] = s[i - 1] /\ s[i - 1] \in Nodes /\ s[i - 1] # n /\ g[i] = f[i - 1]
        BY <1>2, <1>5, <1>8, <2>2, <3>1
      <3> QED
        BY <1>3, <1>7, <3>1, <3>2
    <2> QED
      BY <2>1, <2>2
  <1>10. Lists(r, g)
    <2>1. Len(g) = r.length /\ 1..r.length = 1..k + 1
      BY <1>7, <1>8
    <2>2. \A i \in 1..r.length : g[i] = r.data[t[i]]
      BY <1>9, <2>1
    <2> HIDE DEF k
    <2> QED
      BY <1>2, <1>6, <1>7, <1>8, <2>1, <2>2, SameItems
  <1> QED
    BY <1>10 DEF g

(* push_back puts it after them.                                           *)
LEMMA PushBackLists ==
  ASSUME NEW l, NEW f, Lists(l, f), NEW x \in Items, NEW n \in Nodes \ l.live,
         NEW r, r = LP!PushBack(l, n, x)
  PROVE  Lists(r, Append(f, x))
  <1> DEFINE k == l.length
  <1>1. PICK s : LP!Ordered(l, s) /\ f = ListItems(l, s)
    BY DEF Lists
  <1>2. /\ l \in LP!List /\ ~l.bad /\ None \notin Nodes
        /\ k \in Nat /\ s \in [1..k -> Nodes]
        /\ \A i \in 1..k : s[i] \in l.live
    BY <1>1, OrderedIs, ContainersAssumption DEF Lists
  <1>3. /\ f \in Seq(Datum) /\ Len(f) = k
        /\ \A i \in 1..k : f[i] = l.data[s[i]]
    BY <1>1, <1>2, ListItemsIs
  <1>4. x \in Datum
    BY DEF Datum
  <1> DEFINE t == [i \in 1..k + 1 |-> IF i = k + 1 THEN n ELSE s[i]]
             g == Append(f, x)
  <1>5. /\ t \in [1..k + 1 -> Nodes]
        /\ \A i \in 1..k + 1 : t[i] = IF i = k + 1 THEN n ELSE s[i]
    BY <1>2
  <1> HIDE DEF t
  <1>6. LP!Ordered(r, t) /\ r.bad = l.bad
    BY <1>1, <1>2, <1>5, LP!PushBackOrders
  <1>7. /\ r \in LP!List /\ r.length = l.length + 1
        /\ \A m \in Nodes : r.data[m] = IF m = n THEN x ELSE l.data[m]
    BY <1>2, LP!PushBackFields
  <1>8. /\ g \in Seq(Datum) /\ Len(g) = k + 1
        /\ \A i \in 1..k + 1 : g[i] = IF i = k + 1 THEN x ELSE f[i]
    BY <1>2, <1>3, <1>4
  <1> HIDE DEF g
  <1>9. ASSUME NEW i \in 1..k + 1 PROVE g[i] = r.data[t[i]]
    <2>1. CASE i = k + 1
      BY <1>5, <1>7, <1>8, <2>1
    <2>2. CASE i # k + 1
      <3>1. i \in 1..k
        BY <1>2, <2>2
      <3>2. t[i] = s[i] /\ s[i] \in Nodes /\ s[i] # n /\ g[i] = f[i]
        BY <1>2, <1>5, <1>8, <2>2, <3>1
      <3> QED
        BY <1>3, <1>7, <3>1, <3>2
    <2> QED
      BY <2>1, <2>2
  <1>10. Lists(r, g)
    <2>1. Len(g) = r.length /\ 1..r.length = 1..k + 1
      BY <1>7, <1>8
    <2>2. \A i \in 1..r.length : g[i] = r.data[t[i]]
      BY <1>9, <2>1
    <2> HIDE DEF k
    <2> QED
      BY <1>2, <1>6, <1>7, <1>8, <2>1, <2>2, SameItems
  <1> QED
    BY <1>10 DEF g

(* pop_head hands out the first item and leaves those after it.            *)
LEMMA PopHeadLists ==
  ASSUME NEW l, NEW f, Lists(l, f), l.length > 0, NEW r, r = LP!PopHead(l)
  PROVE  f # <<>> /\ l.data[l.head] = Head(f) /\ Lists(r, Tail(f))
  <1> DEFINE k == l.length
  <1>1. PICK s : LP!Ordered(l, s) /\ f = ListItems(l, s)
    BY DEF Lists
  <1>2. /\ l \in LP!List /\ ~l.bad /\ None \notin Nodes
        /\ k \in Nat /\ k # 0 /\ s \in [1..k -> Nodes]
        /\ \A i \in 1..k : s[i] \in l.live
        /\ \A i, j \in 1..k : s[i] = s[j] => i = j
        /\ l.head = s[1] /\ 1 \in 1..k
    BY <1>1, OrderedIs, ContainersAssumption DEF Lists
  <1>3. /\ f \in Seq(Datum) /\ Len(f) = k
        /\ \A i \in 1..k : f[i] = l.data[s[i]]
    BY <1>1, <1>2, ListItemsIs
  <1> DEFINE t == [i \in 1..k - 1 |-> s[i + 1]]
             g == Tail(f)
  <1>4. t \in [1..k - 1 -> Nodes] /\ \A i \in 1..k - 1 : t[i] = s[i + 1]
    BY <1>2
  <1> HIDE DEF t
  <1>5. r \in LP!List /\ LP!Ordered(r, t) /\ r.bad = l.bad
    BY <1>1, <1>2, <1>4, LP!PopHeadOrders
  <1>6. r.length = l.length - 1
    BY <1>1, <1>2, <1>4, LP!PopHeadOrders
  <1>7. ASSUME NEW i \in 1..k - 1 PROVE r.data[t[i]] = l.data[s[i + 1]]
    <2>1. k > 1 /\ 2 \in 1..k /\ i + 1 \in 1..k /\ i + 1 # 1
      BY <1>2
    <2>2. l.next[s[1]] = s[2] /\ l.prev[s[2]] = s[1]
      BY <1>1, <1>2, <2>1 DEF LP!Ordered, LP!Linked
    <2>3. /\ l.head \in l.live /\ l.next[l.head] \in l.live
          /\ l.prev[l.next[l.head]] = l.head
      BY <1>2, <2>1, <2>2
    <2>4. \A m \in Nodes : r.data[m] = IF m = l.head THEN None ELSE l.data[m]
      BY <1>2, <2>1, <2>3, LP!PopHeadFields
    <2>5. t[i] = s[i + 1] /\ s[i + 1] \in Nodes /\ s[i + 1] # l.head
      BY <1>2, <1>4, <2>1
    <2> QED
      BY <2>4, <2>5
  <1>8. f # <<>> /\ Head(f) = l.data[l.head]
    <2>1. f # <<>>
      BY <1>2, <1>3
    <2>2. f[1] = l.data[l.head]
      BY <1>2, <1>3
    <2> QED
      BY <1>3, <2>1, <2>2
  <1>9. /\ g \in Seq(Datum) /\ Len(g) = k - 1
        /\ \A i \in 1..k - 1 : g[i] = f[i + 1]
    BY <1>3, <1>8
  <1> HIDE DEF g
  <1>10. ASSUME NEW i \in 1..k - 1 PROVE g[i] = r.data[t[i]]
    <2>1. i + 1 \in 1..k
      BY <1>2
    <2> QED
      BY <1>3, <1>7, <1>9, <2>1
  <1>11. Lists(r, g)
    <2>1. Len(g) = r.length /\ 1..r.length = 1..k - 1
      BY <1>6, <1>9
    <2>2. \A i \in 1..r.length : g[i] = r.data[t[i]]
      BY <1>10, <2>1
    <2> HIDE DEF k
    <2> QED
      BY <1>2, <1>5, <1>9, <2>1, <2>2, SameItems
  <1> QED
    BY <1>8, <1>11 DEF g

(* pop_tail hands out the last one and leaves those before it.             *)
LEMMA PopTailLists ==
  ASSUME NEW l, NEW f, Lists(l, f), l.length > 0, NEW r, r = LP!PopTail(l)
  PROVE  f # <<>> /\ l.data[l.tail] = Last(f) /\ Lists(r, Front(f))
  <1> DEFINE k == l.length
  <1>1. PICK s : LP!Ordered(l, s) /\ f = ListItems(l, s)
    BY DEF Lists
  <1>2. /\ l \in LP!List /\ ~l.bad /\ None \notin Nodes
        /\ k \in Nat /\ k # 0 /\ s \in [1..k -> Nodes]
        /\ \A i \in 1..k : s[i] \in l.live
        /\ \A i, j \in 1..k : s[i] = s[j] => i = j
        /\ l.tail = s[k] /\ k \in 1..k
    BY <1>1, OrderedIs, ContainersAssumption DEF Lists
  <1>3. /\ f \in Seq(Datum) /\ Len(f) = k
        /\ \A i \in 1..k : f[i] = l.data[s[i]]
    BY <1>1, <1>2, ListItemsIs
  <1> DEFINE t == [i \in 1..k - 1 |-> s[i]]
             g == Front(f)
  <1>4. t \in [1..k - 1 -> Nodes] /\ \A i \in 1..k - 1 : t[i] = s[i]
    BY <1>2
  <1> HIDE DEF t
  <1>5. r \in LP!List /\ LP!Ordered(r, t) /\ r.bad = l.bad
    BY <1>1, <1>2, <1>4, LP!PopTailOrders
  <1>6. r.length = l.length - 1
    BY <1>1, <1>2, <1>4, LP!PopTailOrders
  <1>7. ASSUME NEW i \in 1..k - 1 PROVE r.data[t[i]] = l.data[s[i]]
    <2>1. k > 1 /\ k - 1 \in 1..k /\ i \in 1..k /\ i # k /\ k # 1
      BY <1>2
    <2>2. l.prev[s[k]] = s[k - 1] /\ l.next[s[k - 1]] = s[k]
      <3>1. PICK j \in 1..k : j = k - 1 /\ j # k /\ j + 1 = k
        BY <1>2, <2>1
      <3>2. l.prev[s[k]] = s[k - 1]
        BY <1>1, <1>2, <2>1 DEF LP!Ordered, LP!Linked
      <3>3. l.next[s[j]] = s[j + 1]
        BY <1>1, <1>2, <3>1 DEF LP!Ordered, LP!Linked
      <3> QED
        BY <3>1, <3>2, <3>3
    <2>3. /\ l.tail \in l.live /\ l.prev[l.tail] \in l.live
          /\ l.next[l.prev[l.tail]] = l.tail
      BY <1>2, <2>1, <2>2
    <2>4. \A m \in Nodes : r.data[m] = IF m = l.tail THEN None ELSE l.data[m]
      BY <1>2, <2>1, <2>3, LP!PopTailFields
    <2>5. t[i] = s[i] /\ s[i] \in Nodes /\ s[i] # l.tail
      BY <1>2, <1>4, <2>1
    <2> QED
      BY <2>4, <2>5
  <1>8. f # <<>> /\ Last(f) = l.data[l.tail]
    <2>1. f # <<>>
      BY <1>2, <1>3
    <2>2. f[k] = l.data[l.tail]
      BY <1>2, <1>3
    <2> QED
      BY <1>3, <2>1, <2>2 DEF Last
  <1>9. /\ g \in Seq(Datum) /\ Len(g) = k - 1
        /\ \A i \in 1..k - 1 : g[i] = f[i]
    BY <1>2, <1>3 DEF Front
  <1> HIDE DEF g
  <1>10. ASSUME NEW i \in 1..k - 1 PROVE g[i] = r.data[t[i]]
    <2>1. i \in 1..k
      BY <1>2
    <2> QED
      BY <1>3, <1>7, <1>9, <2>1
  <1>11. Lists(r, g)
    <2>1. Len(g) = r.length /\ 1..r.length = 1..k - 1
      BY <1>6, <1>9
    <2>2. \A i \in 1..r.length : g[i] = r.data[t[i]]
      BY <1>10, <2>1
    <2> HIDE DEF k
    <2> QED
      BY <1>2, <1>5, <1>9, <2>1, <2>2, SameItems
  <1> QED
    BY <1>8, <1>11 DEF g

(* move_to_front of the j-th node puts its item first: s[j] is neither the *)
(* head, which stays, nor the tail.                                        *)
LEMMA MoveLists ==
  ASSUME NEW l, NEW f, Lists(l, f), NEW n \in l.live, n # l.head, n # l.tail,
         NEW r, r = LP!MoveToFront(l, n)
  PROVE  \E j \in 1..Len(f) : Lists(r, <<f[j]>> \o RemoveAt(f, j))
  <1> DEFINE k == l.length
  <1>1. PICK s : LP!Ordered(l, s) /\ f = ListItems(l, s)
    BY DEF Lists
  <1>2. /\ l \in LP!List /\ ~l.bad /\ None \notin Nodes
        /\ k \in Nat /\ s \in [1..k -> Nodes]
        /\ l.live = {s[i] : i \in 1..k}
        /\ k # 0 => l.head = s[1] /\ l.tail = s[k]
    BY <1>1, OrderedIs, ContainersAssumption DEF Lists
  <1>3. /\ f \in Seq(Datum) /\ Len(f) = k
        /\ \A i \in 1..k : f[i] = l.data[s[i]]
    BY <1>1, <1>2, ListItemsIs
  <1>4. PICK j \in 1..k : n = s[j]
    BY <1>2
  <1>5. k # 0 /\ j # 1 /\ j # k
    BY <1>2, <1>4
  <1> DEFINE t == [i \in 1..k |-> IF i = 1 THEN s[j] ELSE IF i <= j THEN s[i - 1] ELSE s[i]]
             g == <<f[j]>> \o RemoveAt(f, j)
  <1>6. /\ t \in [1..k -> Nodes]
        /\ \A i \in 1..k : t[i] = IF i = 1 THEN s[j] ELSE IF i <= j THEN s[i - 1] ELSE s[i]
    <2>1. \A i \in 1..k : i # 1 => i - 1 \in 1..k
      BY <1>2
    <2> QED
      BY <1>2, <1>4, <2>1
  <1> HIDE DEF t
  <1>7. r \in LP!List
    BY <1>1, <1>2, <1>4, <1>5, <1>6, LP!MoveOrders
  <1>8. LP!Ordered(r, t)
    BY <1>1, <1>2, <1>4, <1>5, <1>6, LP!MoveOrders
  <1>9. r.length = l.length
    BY <1>1, <1>2, <1>4, <1>5, <1>6, LP!MoveOrders, SMTT(30)
  <1>10. r.bad = l.bad
    BY <1>1, <1>2, <1>4, <1>5, <1>6, LP!MoveOrders, SMTT(30)
  <1>11. r.data = l.data
    <2>1. l.head \in Nodes /\ n \in Nodes
      BY <1>2, <1>4, <1>5
    <2> QED
      BY <1>2, <2>1, LP!MoveToFrontFields
  <1>12. /\ g \in Seq(Datum) /\ Len(g) = k
         /\ \A i \in 1..k : g[i] = IF i = 1 THEN f[j] ELSE IF i <= j THEN f[i - 1] ELSE f[i]
    <2> DEFINE a == SubSeq(f, 1, j - 1)  b == SubSeq(f, j + 1, k)  c == RemoveAt(f, j)
    <2>1. c = a \o b
      BY <1>3 DEF RemoveAt
    <2>2. a \in Seq(Datum) /\ Len(a) = j - 1 /\ \A i \in 1..j - 1 : a[i] = f[i]
      BY <1>2, <1>3, <1>4
    <2>3. b \in Seq(Datum) /\ Len(b) = k - j /\ \A i \in 1..k - j : b[i] = f[i + j]
      BY <1>2, <1>3, <1>4
    <2>4. g = <<f[j]>> \o c
      OBVIOUS
    <2> HIDE DEF a, b, c, g
    <2>5. j - 1 \in Nat /\ k - j \in Nat /\ (j - 1) + (k - j) = k - 1 /\ 1 + (k - 1) = k
          /\ k - 1 \in Nat
      BY <1>2, <1>4
    <2>6. /\ c \in Seq(Datum) /\ Len(c) = k - 1
          /\ \A i \in 1..k - 1 : c[i] = IF i <= j - 1 THEN a[i] ELSE b[i - (j - 1)]
      <3>1. PICK m \in Nat, p \in Nat : m = j - 1 /\ p = k - j
        BY <2>5
      <3>2. Len(a) = m /\ Len(b) = p
        BY <2>2, <2>3, <3>1
      <3>3. Concatenated(Datum, a, b, m, p, a \o b)
        BY <2>2, <2>3, <3>2, ConcatIs
      <3>4. m + p = k - 1
        BY <2>5, <3>1
      <3>5. /\ c \in Seq(Datum) /\ Len(c) = m + p
            /\ \A i \in 1..m + p : c[i] = IF i <= m THEN a[i] ELSE b[i - m]
        BY <2>1, <3>3 DEF Concatenated
      <3>6. c \in Seq(Datum) /\ Len(c) = k - 1
        BY <3>4, <3>5
      <3>7. \A i \in 1..k - 1 : c[i] = IF i <= m THEN a[i] ELSE b[i - m]
        BY <3>4, <3>5
      <3> QED
        BY <3>1, <3>6, <3>7
    <2>7. ASSUME NEW i \in 1..k - 1 PROVE c[i] = IF i <= j - 1 THEN f[i] ELSE f[i + 1]
      <3>1. CASE i <= j - 1
        <4>1. i \in 1..j - 1
          BY <1>2, <1>4, <3>1
        <4> QED
          BY <2>2, <2>6, <3>1, <4>1
      <3>2. CASE ~(i <= j - 1)
        <4>1. i - (j - 1) \in 1..k - j /\ (i - (j - 1)) + j = i + 1
          BY <1>2, <1>4, <3>2
        <4>2. c[i] = b[i - (j - 1)]
          BY <2>6, <3>2
        <4>3. b[i - (j - 1)] = f[i + 1]
          BY <2>3, <4>1
        <4> QED
          BY <3>2, <4>2, <4>3
      <3> QED
        BY <3>1, <3>2
    <2>8. <<f[j]>> \in Seq(Datum) /\ Len(<<f[j]>>) = 1 /\ <<f[j]>>[1] = f[j]
      BY <1>3, <1>4
    <2> DEFINE e == <<f[j]>>
    <2>9. e[1] = f[j]
      BY <2>8
    <2>10. g = e \o c /\ e \in Seq(Datum) /\ Len(e) = 1
      BY <2>4, <2>8
    <2> HIDE DEF e
    <2>11. /\ g \in Seq(Datum) /\ Len(g) = k
           /\ \A i \in 1..k : g[i] = IF i <= 1 THEN e[i] ELSE c[i - 1]
      <3>1. PICK m \in Nat, p \in Nat : m = 1 /\ p = k - 1
        BY <2>5
      <3>2. Len(e) = m /\ Len(c) = p
        BY <2>6, <2>10, <3>1
      <3>3. Concatenated(Datum, e, c, m, p, e \o c)
        BY <2>6, <2>10, <3>2, ConcatIs
      <3>4. m + p = k
        BY <2>5, <3>1
      <3>5. /\ g \in Seq(Datum) /\ Len(g) = m + p
            /\ \A i \in 1..m + p : g[i] = IF i <= m THEN e[i] ELSE c[i - m]
        BY <2>10, <3>3 DEF Concatenated
      <3>6. g \in Seq(Datum) /\ Len(g) = k
        BY <3>4, <3>5
      <3>7. \A i \in 1..k : g[i] = IF i <= m THEN e[i] ELSE c[i - m]
        BY <3>4, <3>5
      <3> QED
        BY <3>1, <3>6, <3>7
    <2>12. ASSUME NEW i \in 1..k
          PROVE  g[i] = IF i = 1 THEN f[j] ELSE IF i <= j THEN f[i - 1] ELSE f[i]
      <3>1. CASE i = 1
        BY <2>9, <2>11, <3>1
      <3>2. CASE i # 1
        <4>1. i - 1 \in 1..k - 1 /\ (i - 1) + 1 = i /\ (i - 1 <= j - 1 <=> i <= j) /\ ~(i <= 1)
          BY <1>2, <1>4, <3>2
        <4>2. g[i] = c[i - 1]
          BY <2>11, <4>1
        <4>3. c[i - 1] = IF i - 1 <= j - 1 THEN f[i - 1] ELSE f[(i - 1) + 1]
          BY <2>7, <4>1
        <4> QED
          BY <3>2, <4>1, <4>2, <4>3
      <3> QED
        BY <3>1, <3>2
    <2> QED
      BY <2>12, <2>11
  <1> HIDE DEF g
  <1>13. ASSUME NEW i \in 1..k PROVE g[i] = r.data[t[i]]
    <2>1. CASE i = 1
      BY <1>3, <1>4, <1>6, <1>11, <1>12, <2>1
    <2>2. CASE i # 1 /\ i <= j
      <3>1. i - 1 \in 1..k
        BY <1>2, <2>2
      <3>2. t[i] = s[i - 1] /\ g[i] = f[i - 1]
        BY <1>6, <1>12, <2>2
      <3> QED
        BY <1>3, <1>11, <3>1, <3>2
    <2>3. CASE ~(i <= j)
      <3>1. i # 1
        BY <1>4, <2>3
      <3>2. t[i] = s[i] /\ g[i] = f[i]
        BY <1>6, <1>12, <2>3, <3>1
      <3> QED
        BY <1>3, <1>11, <3>2
    <2> QED
      BY <2>1, <2>2, <2>3
  <1>14. Lists(r, g)
    <2>1. Len(g) = r.length /\ 1..r.length = 1..k
      BY <1>9, <1>12
    <2>2. \A i \in 1..r.length : g[i] = r.data[t[i]]
      BY <1>13, <2>1
    <2>3. ~r.bad
      BY <1>2, <1>10
    <2>4. g \in Seq(Datum)
      BY <1>12
    <2> HIDE DEF k
    <2> QED
      BY <1>7, <1>8, <2>1, <2>2, <2>3, <2>4, SameItems
  <1> QED
    BY <1>3, <1>4, <1>14 DEF g

-----------------------------------------------------------------------------
(* The steps of the list.                                                  *)

(* Push adds its item at one of the ends.                                  *)
LEMMA PushStep ==
  ASSUME NEW f, Lists(list, f), NEW x \in Items, Push(x)
  PROVE  Lists(list', <<x>> \o f) \/ Lists(list', Append(f, x))
  <1>1. PICK n \in Nodes \ list.live :
          list' \in {L!PushFront(list, n, x), L!PushBack(list, n, x)}
    BY DEF Push
  <1>2. list' = LP!PushFront(list, n, x) \/ list' = LP!PushBack(list, n, x)
    BY <1>1, SameLists
  <1> QED
    BY <1>2, PushFrontLists, PushBackLists

(* Pop hands out the item at one of them.                                  *)
LEMMA PopStep ==
  ASSUME NEW f, Lists(list, f), Pop
  PROVE  \/ Lists(list', Tail(f)) /\ ret' = Head(f) /\ f # <<>>
         \/ Lists(list', Front(f)) /\ ret' = Last(f) /\ f # <<>>
  <1>1. list.length > 0
    BY DEF Pop
  <1>2. \/ list' = LP!PopHead(list) /\ ret' = list.data[list.head]
        \/ list' = LP!PopTail(list) /\ ret' = list.data[list.tail]
    BY SameLists DEF Pop
  <1> QED
    BY <1>1, <1>2, PopHeadLists, PopTailLists

(* Move puts an item first, unless its node is the head.                   *)
LEMMA MoveStep ==
  ASSUME NEW f, Lists(list, f), NEW n \in Nodes, Move(n)
  PROVE  \/ Lists(list', f)
         \/ \E j \in DOMAIN f : Lists(list', <<f[j]>> \o RemoveAt(f, j))
  <1>1. /\ n \in list.live /\ (n = list.head \/ n # list.tail)
        /\ list' = LP!MoveToFront(list, n)
    BY SameLists DEF Move
  <1>2. CASE n = list.head
    <2>1. list' = list
      BY <1>1, <1>2 DEF LP!MoveToFront
    <2> QED
      BY <2>1
  <1>3. CASE n # list.head
    <2>1. PICK j \in 1..Len(f) : Lists(list', <<f[j]>> \o RemoveAt(f, j))
      BY <1>1, <1>3, MoveLists
    <2>2. j \in DOMAIN f
      <3>1. PICK s : LP!Ordered(list, s) /\ f = ListItems(list, s) /\ list \in LP!List
        BY DEF Lists
      <3>2. Len(f) = list.length /\ DOMAIN f = 1..list.length
        BY <3>1, ListItemsIs
      <3> QED
        BY <2>1, <3>2
    <2> QED
      BY <2>1, <2>2
  <1> QED
    BY <1>2, <1>3

(* The inductive invariant: the list is a sequence of items.               *)
ListInv == \E f : Lists(list, f)

(* A new list is empty.                                                    *)
LEMMA ListStarts == Init => Lists(list, <<>>)
  <1> SUFFICES ASSUME Init PROVE Lists(list, <<>>)
    OBVIOUS
  <1>1. list = LP!Created
    BY SameLists DEF Init
  <1>2. list \in LP!List /\ list.bad = FALSE /\ list.live = {} /\ list.length = 0
    BY <1>1, ContainersAssumption, LP!CreatedShape
  <1>3. list.head = None /\ list.tail = None
    BY <1>1 DEF LP!Created
  <1> DEFINE s == [i \in 1..0 |-> i]
  <1>4. s \in [1..0 -> Nodes]
    OBVIOUS
  <1>5. LP!Linked(list, s)
    BY <1>2, <1>3 DEF LP!Linked
  <1>6. LP!Ordered(list, s)
    BY <1>2, <1>4, <1>5 DEF LP!Ordered
  <1>7. <<>> = ListItems(list, s)
    BY <1>2 DEF ListItems
  <1> QED
    BY <1>2, <1>6, <1>7 DEF Lists

(* Every step keeps it.                                                    *)
LEMMA ListKept == ListInv /\ [Next]_vars => ListInv'
  <1> SUFFICES ASSUME ListInv, [Next]_vars PROVE ListInv'
    OBVIOUS
  <1>1. PICK f : Lists(list, f)
    BY DEF ListInv
  <1>2. ASSUME NEW x \in Items, Push(x) PROVE ListInv'
    BY <1>1, <1>2, PushStep DEF ListInv
  <1>3. CASE Pop
    BY <1>1, <1>3, PopStep DEF ListInv
  <1>4. ASSUME NEW n \in Nodes, Move(n) PROVE ListInv'
    BY <1>1, <1>4, MoveStep DEF ListInv
  <1>5. Next => \/ \E x \in Items : Push(x)
                \/ Pop \/ \E n \in Nodes : Move(n)
                \/ UNCHANGED list
    BY DEF Next, Enqueue, Dequeue, Release, Clear, PoolAlloc, PoolFree, BumpAlloc, BumpReset,
           lists
  <1>6. CASE UNCHANGED list
    BY <1>1, <1>6 DEF ListInv
  <1>7. UNCHANGED vars => UNCHANGED list
    BY DEF vars, lists
  <1> QED
    BY <1>2, <1>3, <1>4, <1>5, <1>6, <1>7

(* It holds always.                                                        *)
LEMMA ListInvAlways == Spec => []ListInv
  <1>1. Init => ListInv
    BY ListStarts DEF ListInv
  <1> QED
    BY <1>1, ListKept, PTL DEF Spec

(* Whatever is pushed, popped or moved short of the tail, the list is      *)
(* linked in both directions, of exactly its live nodes, and no operation  *)
(* follows a null or dangling pointer (ListLinked).                        *)
THEOREM ListsStayLinked == Spec => []ListLinked
<1>1. ListInv => ListLinked
  <2> SUFFICES ASSUME ListInv PROVE ListLinked
    OBVIOUS
  <2>1. PICK s : LP!Ordered(list, s)
    BY DEF ListInv, Lists
  <2>2. list \in LP!List /\ ~list.bad /\ None \notin Nodes
    BY ContainersAssumption DEF ListInv, Lists
  <2>3. LP!Chain(list.next, list.head, list.length) = s
    BY <2>1, <2>2, LP!ChainIs
  <2>4. ListNodes = s
    BY <2>3, SameLists DEF ListNodes
  <2>5. L!Linked(list, s)
    BY <2>1, SameLists DEF LP!Ordered
  <2> QED
    BY <2>2, <2>4, <2>5 DEF ListLinked
<1> QED
  BY <1>1, ListInvAlways, PTL

(* The remainder of a negative index.                                      *)
LEMMA ModBelow == ASSUME NEW m \in Nat \ {0}, NEW x \in 1..m
                  PROVE  (-x) % m = m - x
OBVIOUS

(* doubly_linked_list_get refuses every index (GetRefuses): those that are *)
(* not negative and below the length are no larger than -length - 1 taken  *)
(* as a size_t, and the negative ones are larger than the length.          *)
THEOREM GetAlwaysRefuses == Spec => []GetRefuses
<1>1. ListInv => GetRefuses
  <2> SUFFICES ASSUME ListInv, NEW i \in -MaxLive..MaxLive
               PROVE  L!Get(list, i, Word) = None
    BY DEF GetRefuses
  <2> DEFINE k == list.length
  <2>1. PICK s : LP!Ordered(list, s)
    BY DEF ListInv, Lists
  <2>2. k \in Nat /\ s \in [1..k -> Nodes] /\ \A j, m \in 1..k : s[j] = s[m] => j = m
    BY <2>1 DEF LP!Ordered
  <2> HIDE DEF k
  <2>3. k <= Cardinality(Nodes) /\ Cardinality(Nodes) \in Nat
    <3>1. s \in Injection(1..k, Nodes)
      BY <2>2 DEF Injection, IsInjective
    <3>2. IsFiniteSet(Nodes) /\ Cardinality(1..k) = k
      BY <2>2, ContainersAssumption, FS_Interval
    <3> QED
      BY <3>1, <3>2, FS_Injection, FS_CardinalityType
  <2>4. Word \in Nat \ {0} /\ MaxLive \in Nat /\ 2 * MaxLive <= Word /\ 2 * k <= Word
    BY <2>2, <2>3, ContainersAssumption
  <2>5. i % Word >= k \/ i % Word <= (-k - 1) % Word
    <3>1. CASE i >= 0 /\ i < k
      <4>1. Word \in Nat \ {0} /\ i \in 0..Word - 1 /\ k + 1 \in 1..Word /\ -k - 1 = -(k + 1)
        BY <3>1, <2>2, <2>4
      <4>2. i % Word = i /\ (-k - 1) % Word = Word - (k + 1)
        BY <4>1, ModSame, ModBelow
      <4> QED
        BY <3>1, <4>1, <4>2, <2>2, <2>4
    <3>2. CASE i >= k
      <4>1. i \in 0..Word - 1
        BY <3>2, <2>2, <2>4
      <4>2. i % Word = i
        BY <4>1, <2>4, ModSame
      <4> QED
        BY <4>2, <3>2
    <3>3. CASE i < 0
      <4>1. Word \in Nat \ {0} /\ -i \in 1..Word /\ i = -(-i) /\ -i <= MaxLive
        BY <3>3, <2>4
      <4>2. i % Word = Word - (-i)
        BY <4>1, ModBelow
      <4> QED
        BY <4>1, <4>2, <2>2, <2>4
    <3> QED
      BY <3>1, <3>2, <3>3, <2>2
  <2> QED
    BY <2>5 DEF L!Get, k
<1> QED
  BY <1>1, ListInvAlways, PTL

-----------------------------------------------------------------------------
(* The queue.                                                              *)

(* The sets of the fields, as names the provers need not look into.        *)
CellPtr == Cells \cup {None}
CellLinks == [Cells -> CellPtr]
CellValues == [Cells -> Items \cup {None}]
CellSet == SUBSET Cells
QueueRec == [live : CellSet, next : CellLinks, data : CellLinks, value : CellValues,
             root : CellPtr, head : CellPtr, bad : BOOLEAN]

(* The k nodes s are linked from the root to the head, no other cell is.   *)
Row(q, k, s) ==
  /\ k \in Nat /\ s \in [1..k -> Cells]
  /\ k = 0 => q.root = None /\ q.head = None
  /\ k > 0 => q.root = s[1] /\ q.head = s[k]
  /\ \A i \in 1..k : q.next[s[i]] = IF i = k THEN None ELSE s[i + 1]
  /\ \A c \in Cells : (\A i \in 1..k : s[i] # c) => q.next[c] = None

(* They, their items and the cells of H have no cell in common, and are    *)
(* all that is allocated.                                                  *)
Apart(q, k, s, H) ==
  /\ \A i, j \in 1..k : s[i] = s[j] => i = j
  /\ \A i, j \in 1..k : q.data[s[i]] = q.data[s[j]] => i = j
  /\ \A i, j \in 1..k : s[i] # q.data[s[j]]
  /\ \A i \in 1..k : q.data[s[i]] \in Cells
  /\ \A i \in 1..k : s[i] \notin H /\ q.data[s[i]] \notin H
  /\ H \in SUBSET Cells
  /\ q.live = {s[i] : i \in 1..k} \cup {q.data[s[i]] : i \in 1..k} \cup H

(* The items are in the queue's nodes.                                     *)
Filled(q, k, s) == \A i \in 1..k : q.value[q.data[s[i]]] \in Items

Owned(q, k, s, H) ==
  q \in QueueRec /\ ~q.bad /\ Row(q, k, s) /\ Apart(q, k, s, H) /\ Filled(q, k, s)

(* enqueue, field by field.                                                *)
LEMMA EnqueueFields ==
  ASSUME NEW q \in QueueRec, NEW n \in Cells, NEW d \in Cells, NEW x \in Items,
         q.head = None \/ q.head \in q.live, NEW r, r = Q!Enqueue(q, n, d, x)
  PROVE  /\ r \in QueueRec /\ r.bad = q.bad
         /\ r.live = q.live \cup {n, d}
         /\ r.root = (IF q.head = None THEN n ELSE q.root) /\ r.head = n
         /\ \A c \in Cells :
              /\ r.next[c] = IF c = q.head /\ q.head # None THEN n ELSE q.next[c]
              /\ r.data[c] = IF c = n THEN d ELSE q.data[c]
              /\ r.value[c] = IF c = d THEN x ELSE q.value[c]
  <1> DEFINE lv == q.live \cup {n, d}
             nx == IF q.head = None THEN q.next ELSE [q.next EXCEPT ![q.head] = n]
             da == [q.data EXCEPT ![n] = d]
             va == [q.value EXCEPT ![d] = x]
             rt == IF q.head = None THEN n ELSE q.root
             t == Q!Touch(q, {q.head})
             p == IF q.head = None THEN q ELSE [t EXCEPT !.next[q.head] = n]
  <1>1. lv \in CellSet /\ rt \in CellPtr /\ n \in CellPtr
    BY DEF QueueRec, CellSet, CellPtr
  <1>2. /\ nx \in CellLinks
        /\ \A c \in Cells : nx[c] = IF c = q.head /\ q.head # None THEN n ELSE q.next[c]
    BY DEF QueueRec, CellLinks, CellPtr
  <1>3. da \in CellLinks /\ \A c \in Cells : da[c] = IF c = n THEN d ELSE q.data[c]
    BY DEF QueueRec, CellLinks, CellPtr
  <1>4. va \in CellValues /\ \A c \in Cells : va[c] = IF c = d THEN x ELSE q.value[c]
    BY DEF QueueRec, CellValues
  <1>5. t = q \/ q.head = None
    <2>1. q.head # None => q.bad = (q.bad \/ ~({q.head} \subseteq q.live))
      BY DEF QueueRec
    <2> QED
      BY <2>1 DEF Q!Touch, QueueRec
  <1>6. p \in QueueRec /\ p.next = nx
    BY <1>2, <1>5 DEF QueueRec
  <1>7. p.live = q.live /\ p.data = q.data /\ p.value = q.value /\ p.root = q.root /\ p.bad = q.bad
    BY <1>5 DEF QueueRec
  <1>8. r = [p EXCEPT !.live = lv, !.data = da, !.value = va, !.root = rt, !.head = n]
    <2>1. r = [p EXCEPT !.live = @ \cup {n, d}, !.data[n] = d, !.value[d] = x,
                        !.root = IF q.head = None THEN n ELSE @, !.head = n]
      BY DEF Q!Enqueue
    <2> HIDE DEF p
    <2> QED
      BY <1>6, <1>7, <2>1
  <1> HIDE DEF lv, nx, da, va, rt, p
  <1>9. r \in QueueRec /\ r.next = p.next /\ r.bad = p.bad
    BY <1>1, <1>3, <1>4, <1>6, <1>8 DEF QueueRec
  <1>10. r.live = lv /\ r.data = da /\ r.value = va /\ r.root = rt /\ r.head = n
    BY <1>6, <1>8 DEF QueueRec
  <1> QED
    BY <1>2, <1>3, <1>4, <1>6, <1>7, <1>9, <1>10 DEF lv, rt

(* free, field by field.                                                   *)
LEMMA QueueFreeFields ==
  ASSUME NEW q \in QueueRec, NEW e \in q.live, NEW r, r = Q!Free(q, e)
  PROVE  /\ r \in QueueRec /\ r.bad = q.bad
         /\ r.live = q.live \ {e}
         /\ r.root = q.root /\ r.head = q.head
         /\ \A c \in Cells :
              /\ r.next[c] = IF c = e THEN None ELSE q.next[c]
              /\ r.data[c] = IF c = e THEN None ELSE q.data[c]
              /\ r.value[c] = IF c = e THEN None ELSE q.value[c]
  <1> DEFINE lv == q.live \ {e}
             nx == [q.next EXCEPT ![e] = None]
             da == [q.data EXCEPT ![e] = None]
             va == [q.value EXCEPT ![e] = None]
             t == Q!Touch(q, {e})
  <1>1. lv \in CellSet
    BY DEF QueueRec, CellSet
  <1>2. nx \in CellLinks /\ \A c \in Cells : nx[c] = IF c = e THEN None ELSE q.next[c]
    BY DEF QueueRec, CellLinks, CellPtr
  <1>3. da \in CellLinks /\ \A c \in Cells : da[c] = IF c = e THEN None ELSE q.data[c]
    BY DEF QueueRec, CellLinks, CellPtr
  <1>4. va \in CellValues /\ \A c \in Cells : va[c] = IF c = e THEN None ELSE q.value[c]
    BY DEF QueueRec, CellValues
  <1>5. t = q
    <2>1. q.bad = (q.bad \/ ~({e} \subseteq q.live))
      BY DEF QueueRec
    <2> QED
      BY <2>1 DEF Q!Touch, QueueRec
  <1>6. r = [q EXCEPT !.live = lv, !.next = nx, !.data = da, !.value = va]
    BY <1>5 DEF Q!Free
  <1> HIDE DEF lv, nx, da, va
  <1>7. r \in QueueRec /\ r.bad = q.bad /\ r.root = q.root /\ r.head = q.head
    BY <1>1, <1>2, <1>3, <1>4, <1>6 DEF QueueRec
  <1>8. r.live = lv /\ r.next = nx /\ r.data = da /\ r.value = va
    BY <1>6 DEF QueueRec
  <1> QED
    BY <1>2, <1>3, <1>4, <1>7, <1>8 DEF lv

(* dequeue, field by field, of a queue whose root is allocated.            *)
LEMMA DequeueFields ==
  ASSUME NEW q \in QueueRec, q.root \in q.live, NEW r, r = Q!AfterDequeue(q)
  PROVE  /\ r \in QueueRec /\ r.bad = q.bad
         /\ r.live = q.live \ {q.root}
         /\ r.root = q.next[q.root]
         /\ r.head = IF q.next[q.root] = None THEN None ELSE q.head
         /\ \A c \in Cells :
              /\ r.next[c] = IF c = q.root THEN None ELSE q.next[c]
              /\ r.data[c] = IF c = q.root THEN None ELSE q.data[c]
              /\ r.value[c] = IF c = q.root THEN None ELSE q.value[c]
  <1> DEFINE p == Q!Touch(q, {q.root})  f == Q!Free(q, q.root)  e == q.root
             hd == IF q.next[q.root] = None THEN None ELSE q.head
  <1>1. p = q
    <2>1. q.bad = (q.bad \/ ~({q.root} \subseteq q.live))
      BY DEF QueueRec
    <2> QED
      BY <2>1 DEF Q!Touch, QueueRec
  <1>2. q.next[q.root] \in CellPtr /\ hd \in CellPtr
    BY DEF QueueRec, CellLinks, CellPtr, CellSet
  <1>3. e \in q.live /\ f = Q!Free(q, e)
    OBVIOUS
  <1> HIDE DEF e
  <1>4. /\ f \in QueueRec /\ f.bad = q.bad /\ f.live = q.live \ {e} /\ f.head = q.head
        /\ \A c \in Cells :
              /\ f.next[c] = IF c = e THEN None ELSE q.next[c]
              /\ f.data[c] = IF c = e THEN None ELSE q.data[c]
              /\ f.value[c] = IF c = e THEN None ELSE q.value[c]
    <2> HIDE DEF f
    <2> QED
      BY <1>3, QueueFreeFields
  <1>5. r = [f EXCEPT !.root = q.next[q.root], !.head = hd]
    <2>1. r = [f EXCEPT !.root = q.next[q.root],
                        !.head = IF q.next[q.root] = None THEN None ELSE @]
      BY <1>1 DEF Q!AfterDequeue
    <2> HIDE DEF f
    <2> QED
      BY <1>4, <2>1 DEF QueueRec
  <1> HIDE DEF f, p, hd
  <1>6. r \in QueueRec /\ r.bad = f.bad /\ r.live = f.live /\ r.next = f.next
    BY <1>2, <1>4, <1>5 DEF QueueRec
  <1>7. r.data = f.data /\ r.value = f.value /\ r.root = q.next[q.root] /\ r.head = hd
    BY <1>4, <1>5 DEF QueueRec
  <1> QED
    BY <1>4, <1>6, <1>7 DEF e, hd

(* What is used of an owned queue.                                         *)
LEMMA OwnedIs ==
  ASSUME NEW q, NEW k, NEW s, NEW H, Owned(q, k, s, H)
  PROVE  /\ q \in QueueRec /\ ~q.bad /\ k \in Nat /\ s \in [1..k -> Cells] /\ H \in SUBSET Cells
         /\ \A i \in 1..k : s[i] \in q.live /\ q.data[s[i]] \in q.live /\ q.data[s[i]] \in Cells
         /\ \A i \in 1..k : q.value[q.data[s[i]]] \in Items
         /\ \A c \in H : c \in q.live /\ \A i \in 1..k : c # s[i] /\ c # q.data[s[i]]
         /\ q.live \in SUBSET Cells
  BY DEF Owned, Row, Apart, Filled, QueueRec, CellSet

\* The k nodes s and n after them; the queue r with x in it too.
Longer(k, s, n, t) ==
  t \in [1..k + 1 -> Cells] /\ \A i \in 1..k + 1 : t[i] = IF i = k + 1 THEN n ELSE s[i]
Enqueued(q, k, s, H, x, r, t) ==
  /\ Owned(r, k + 1, t, H)
  /\ \A i \in 1..k : r.value[r.data[t[i]]] = q.value[q.data[s[i]]]
  /\ r.value[r.data[t[k + 1]]] = x
  /\ \A c \in H : r.value[c] = q.value[c]

(* enqueue of a node and a copy that malloc returned.                      *)
LEMMA EnqueueOwned ==
  ASSUME NEW q, NEW k, NEW s, NEW H, Owned(q, k, s, H),
         NEW n \in Cells \ q.live, NEW d \in Cells \ q.live, n # d, NEW x \in Items,
         NEW r, r = Q!Enqueue(q, n, d, x), NEW t, Longer(k, s, n, t)
  PROVE  Enqueued(q, k, s, H, x, r, t)
  <1>1. t \in [1..k + 1 -> Cells] /\ \A i \in 1..k + 1 : t[i] = IF i = k + 1 THEN n ELSE s[i]
    BY DEF Longer
  <1>2. /\ q \in QueueRec /\ ~q.bad /\ k \in Nat /\ s \in [1..k -> Cells] /\ H \in SUBSET Cells
        /\ \A i \in 1..k : s[i] \in q.live /\ q.data[s[i]] \in q.live /\ q.data[s[i]] \in Cells
        /\ \A i \in 1..k : q.value[q.data[s[i]]] \in Items
        /\ \A c \in H : c \in q.live /\ \A i \in 1..k : c # s[i] /\ c # q.data[s[i]]
    BY OwnedIs
  <1>3. Row(q, k, s) /\ Apart(q, k, s, H)
    BY DEF Owned
  <1>4. None \notin Cells
    BY ContainersAssumption
  <1>5. IF k = 0 THEN q.root = None /\ q.head = None ELSE q.root = s[1] /\ q.head = s[k]
    BY <1>2, <1>3 DEF Row
  <1>6. (k # 0 => 1 \in 1..k /\ k \in 1..k) /\ 1..k + 1 = 1..k \cup {k + 1} /\ k + 1 \notin 1..k
    BY <1>2
  <1>7. q.head = None \/ q.head \in q.live
    BY <1>2, <1>5, <1>6
  <1>8. /\ r \in QueueRec /\ r.bad = q.bad
        /\ r.live = q.live \cup {n, d}
        /\ r.root = (IF q.head = None THEN n ELSE q.root) /\ r.head = n
        /\ \A c \in Cells :
             /\ r.next[c] = IF c = q.head /\ q.head # None THEN n ELSE q.next[c]
             /\ r.data[c] = IF c = n THEN d ELSE q.data[c]
             /\ r.value[c] = IF c = d THEN x ELSE q.value[c]
    BY <1>2, <1>7, EnqueueFields
  <1>9. /\ \A i \in 1..k : t[i] = s[i] /\ r.data[t[i]] = q.data[s[i]] /\ s[i] # n /\ s[i] # d
                           /\ q.data[s[i]] # n /\ q.data[s[i]] # d
        /\ t[k + 1] = n /\ r.data[t[k + 1]] = d
    <2>1. \A i \in 1..k : t[i] = s[i] /\ s[i] \in Cells
      BY <1>2, <1>6, <1>1
    <2>2. \A i \in 1..k : s[i] # n /\ s[i] # d /\ q.data[s[i]] # n /\ q.data[s[i]] # d
      BY <1>2
    <2>3. t[k + 1] = n
      BY <1>6, <1>1
    <2> QED
      BY <1>8, <2>1, <2>2, <2>3
  <1>10. Row(r, k + 1, t)
    <2>1. k + 1 \in Nat /\ k + 1 > 0 /\ k + 1 # 0
      BY <1>2
    <2>2. r.root = t[1] /\ r.head = t[k + 1]
      <3>1. CASE k = 0
        BY <1>5, <1>8, <1>9, <3>1
      <3>2. CASE k # 0
        BY <1>2, <1>4, <1>5, <1>6, <1>8, <1>9, <3>2
      <3> QED
        BY <3>1, <3>2
    <2>3. ASSUME NEW i \in 1..k + 1
          PROVE  r.next[t[i]] = IF i = k + 1 THEN None ELSE t[i + 1]
      <3>1. CASE i = k + 1
        <4>1. q.next[n] = None
          BY <1>2, <1>3, <1>9 DEF Row
        <4>2. n # q.head \/ q.head = None
          BY <1>7
        <4> QED
          BY <1>8, <1>9, <3>1, <4>1, <4>2
      <3>2. CASE i = k /\ k # 0
        <4>1. t[i] = q.head /\ q.head \in Cells /\ q.head # None /\ i # k + 1 /\ i + 1 = k + 1
          BY <1>2, <1>4, <1>5, <1>6, <1>9, <3>2
        <4> QED
          BY <1>8, <1>9, <4>1
      <3>3. CASE i # k + 1 /\ i # k
        <4>1. i \in 1..k /\ i + 1 \in 1..k /\ k \in 1..k
          BY <1>2, <3>3
        <4>2. q.next[s[i]] = s[i + 1] /\ s[i] # s[k] /\ s[k] = q.head
          BY <1>2, <1>3, <1>5, <3>3, <4>1 DEF Row, Apart
        <4>3. r.next[s[i]] = s[i + 1]
          BY <1>2, <1>8, <4>1, <4>2
        <4> QED
          BY <1>9, <3>3, <4>1, <4>3
      <3> QED
        BY <1>2, <1>6, <3>1, <3>2, <3>3
    <2>4. ASSUME NEW c \in Cells, \A i \in 1..k + 1 : t[i] # c
          PROVE  r.next[c] = None
      <3>1. \A i \in 1..k : s[i] # c
        BY <1>6, <1>9, <2>4
      <3>2. q.next[c] = None
        BY <1>3, <3>1 DEF Row
      <3>3. c # q.head \/ q.head = None
        BY <1>5, <1>6, <3>1
      <3> QED
        BY <1>8, <3>2, <3>3
    <2> QED
      BY <1>1, <2>1, <2>2, <2>3, <2>4 DEF Row
  <1>11. Apart(r, k + 1, t, H)
    <2>1. \A i, j \in 1..k : s[i] = s[j] => i = j
      BY <1>3 DEF Apart
    <2>2. \A i, j \in 1..k : q.data[s[i]] = q.data[s[j]] => i = j
      BY <1>3 DEF Apart
    <2>3. \A i, j \in 1..k : s[i] # q.data[s[j]]
      BY <1>3 DEF Apart
    <2>4. q.live = {s[i] : i \in 1..k} \cup {q.data[s[i]] : i \in 1..k} \cup H
      BY <1>3 DEF Apart
    <2>5. \A i, j \in 1..k + 1 : t[i] = t[j] => i = j
      BY <1>6, <1>9, <2>1
    <2>6. \A i, j \in 1..k + 1 : r.data[t[i]] = r.data[t[j]] => i = j
      BY <1>6, <1>9, <2>2
    <2>7. \A i, j \in 1..k + 1 : t[i] # r.data[t[j]]
      BY <1>6, <1>9, <2>3
    <2>8. \A i \in 1..k + 1 : r.data[t[i]] \in Cells /\ t[i] \notin H /\ r.data[t[i]] \notin H
      BY <1>2, <1>6, <1>9
    <2>9. r.live = {t[i] : i \in 1..k + 1} \cup {r.data[t[i]] : i \in 1..k + 1} \cup H
      <3>1. {t[i] : i \in 1..k + 1} = {s[i] : i \in 1..k} \cup {n}
        BY <1>6, <1>9
      <3>2. {r.data[t[i]] : i \in 1..k + 1} = {q.data[s[i]] : i \in 1..k} \cup {d}
        BY <1>6, <1>9
      <3> QED
        BY <1>8, <2>4, <3>1, <3>2
    <2> QED
      BY <1>2, <2>5, <2>6, <2>7, <2>8, <2>9 DEF Apart
  <1>12. /\ \A i \in 1..k : r.value[r.data[t[i]]] = q.value[q.data[s[i]]]
         /\ r.value[r.data[t[k + 1]]] = x
         /\ \A c \in H : r.value[c] = q.value[c]
    BY <1>2, <1>8, <1>9
  <1>13. Filled(r, k + 1, t)
    BY <1>2, <1>6, <1>12 DEF Filled
  <1>14. ~r.bad
    BY <1>2, <1>8
  <1> QED
    BY <1>8, <1>10, <1>11, <1>12, <1>13, <1>1, <1>14 DEF Enqueued, Owned

\* The k nodes s without the first one; the queue r without it, its item handed out.
Shorter(k, s, t) == t \in [1..k - 1 -> Cells] /\ \A i \in 1..k - 1 : t[i] = s[i + 1]
Dequeued(q, k, s, H, r, t) ==
  /\ q.root = s[1] /\ Owned(r, k - 1, t, H \cup {q.data[s[1]]})
  /\ \A i \in 1..k - 1 : r.value[r.data[t[i]]] = q.value[q.data[s[i + 1]]]
  /\ \A c \in H \cup {q.data[s[1]]} : r.value[c] = q.value[c]

(* dequeue frees the first node and hands out its item.                    *)
LEMMA DequeueOwned ==
  ASSUME NEW q, NEW k, NEW s, NEW H, Owned(q, k, s, H), k # 0, NEW t, Shorter(k, s, t)
  PROVE  Dequeued(q, k, s, H, Q!AfterDequeue(q), t)
  <1> DEFINE J == H \cup {q.data[s[1]]}  r == Q!AfterDequeue(q)
  <1>1. t \in [1..k - 1 -> Cells] /\ \A i \in 1..k - 1 : t[i] = s[i + 1]
    BY DEF Shorter
  <1>2. r = Q!AfterDequeue(q)
    OBVIOUS
  <1> HIDE DEF r
  <1>3. /\ q \in QueueRec /\ ~q.bad /\ k \in Nat /\ s \in [1..k -> Cells] /\ H \in SUBSET Cells
        /\ \A i \in 1..k : s[i] \in q.live /\ q.data[s[i]] \in q.live /\ q.data[s[i]] \in Cells
        /\ \A i \in 1..k : q.value[q.data[s[i]]] \in Items
        /\ \A c \in H : c \in q.live /\ \A i \in 1..k : c # s[i] /\ c # q.data[s[i]]
    BY OwnedIs
  <1>4. Row(q, k, s) /\ Apart(q, k, s, H)
    BY DEF Owned
  <1>5. None \notin Cells
    BY ContainersAssumption
  <1>6. /\ 1 \in 1..k /\ k \in 1..k /\ k - 1 \in Nat
        /\ \A i \in 1..k - 1 : i \in 1..k /\ i + 1 \in 1..k /\ i + 1 # 1
        /\ \A i \in 1..k : i = 1 \/ (i - 1 \in 1..k - 1 /\ i = (i - 1) + 1)
    BY <1>3
  <1>7. q.root = s[1] /\ q.head = s[k] /\ q.root \in q.live
    BY <1>3, <1>4, <1>6 DEF Row
  <1>8. /\ r \in QueueRec /\ r.bad = q.bad
        /\ r.live = q.live \ {s[1]}
        /\ r.root = q.next[s[1]]
        /\ r.head = IF q.next[s[1]] = None THEN None ELSE q.head
        /\ \A c \in Cells :
             /\ r.next[c] = IF c = s[1] THEN None ELSE q.next[c]
             /\ r.data[c] = IF c = s[1] THEN None ELSE q.data[c]
             /\ r.value[c] = IF c = s[1] THEN None ELSE q.value[c]
    BY <1>3, <1>7, <1>2, DequeueFields
  <1>9. /\ \A i, j \in 1..k : s[i] = s[j] => i = j
        /\ \A i, j \in 1..k : q.data[s[i]] = q.data[s[j]] => i = j
        /\ \A i, j \in 1..k : s[i] # q.data[s[j]]
        /\ q.live = {s[i] : i \in 1..k} \cup {q.data[s[i]] : i \in 1..k} \cup H
    BY <1>4 DEF Apart
  <1>10. \A i \in 1..k - 1 : t[i] = s[i + 1] /\ t[i] # s[1] /\ r.data[t[i]] = q.data[s[i + 1]]
    <2> SUFFICES ASSUME NEW i \in 1..k - 1
                 PROVE  t[i] = s[i + 1] /\ t[i] # s[1] /\ r.data[t[i]] = q.data[s[i + 1]]
      OBVIOUS
    <2> DEFINE j == i + 1
    <2>1. j \in 1..k /\ j # 1 /\ t[i] = s[j]
      BY <1>1, <1>6
    <2> HIDE DEF j
    <2>2. s[j] # s[1] /\ s[j] \in Cells
      BY <1>3, <1>6, <1>9, <2>1
    <2>3. r.data[s[j]] = q.data[s[j]]
      BY <1>8, <2>2
    <2> QED
      BY <2>1, <2>2, <2>3 DEF j
  <1> DEFINE Next1(i) == i + 1
  <1>11. \A i \in 1..k - 1 : Next1(i) \in 1..k /\ Next1(i) # 1 /\ t[i] = s[Next1(i)]
                             /\ r.data[t[i]] = q.data[s[Next1(i)]]
    BY <1>6, <1>10
  <1>12. \A i, j \in 1..k - 1 : Next1(i) = Next1(j) => i = j
    OBVIOUS
  <1>13. \A j \in 1..k : j = 1 \/ \E i \in 1..k - 1 : j = Next1(i)
    BY <1>6
  <1> HIDE DEF Next1
  <1>14. Row(r, k - 1, t)
    <2>1. q.next[s[1]] = IF 1 = k THEN None ELSE s[2]
      BY <1>4, <1>6 DEF Row
    <2>2. CASE k = 1
      <3>1. k - 1 = 0 /\ 1..k - 1 = {} /\ r.root = None /\ r.head = None
        BY <1>8, <2>1, <2>2
      <3>2. ASSUME NEW c \in Cells PROVE r.next[c] = None
        <4>1. c # s[1] => q.next[c] = None
          <5>1. 1..k = {1}
            BY <2>2
          <5> QED
            BY <1>4, <5>1 DEF Row
        <4> QED
          BY <1>8, <4>1
      <3> QED
        BY <1>1, <3>1, <3>2 DEF Row
    <2>3. CASE k # 1
      <3>1. k - 1 > 0 /\ k - 1 # 0 /\ 1 \in 1..k - 1 /\ k - 1 \in 1..k - 1 /\ (k - 1) + 1 = k /\ 2 \in 1..k
        BY <1>3, <2>3
      <3>2. r.root = t[1] /\ r.head = t[k - 1]
        BY <1>3, <1>5, <1>7, <1>8, <1>10, <2>1, <2>3, <3>1
      <3>3. ASSUME NEW i \in 1..k - 1
            PROVE  r.next[t[i]] = IF i = k - 1 THEN None ELSE t[i + 1]
        <4>1. i + 1 \in 1..k /\ (i + 1 = k <=> i = k - 1) /\ (i # k - 1 => i + 1 \in 1..k - 1)
          BY <1>3
        <4>2. q.next[s[i + 1]] = IF i + 1 = k THEN None ELSE s[(i + 1) + 1]
          BY <1>4, <4>1 DEF Row
        <4>3. r.next[t[i]] = q.next[s[i + 1]]
          BY <1>3, <1>8, <1>10, <4>1
        <4> QED
          BY <1>10, <4>1, <4>2, <4>3
      <3>4. ASSUME NEW c \in Cells, \A i \in 1..k - 1 : t[i] # c
            PROVE  r.next[c] = None
        <4>1. c # s[1] => \A i \in 1..k : s[i] # c
          BY <1>6, <1>10, <3>4
        <4> QED
          BY <1>4, <1>8, <4>1 DEF Row
      <3> QED
        BY <1>1, <1>6, <3>1, <3>2, <3>3, <3>4 DEF Row
    <2> QED
      BY <2>2, <2>3
  <1> DEFINE I == 1..k  K == 1..k - 1
  <1>15. /\ 1 \in I /\ \A i \in I : s[i] \in Cells /\ q.data[s[i]] \in Cells
         /\ H \in SUBSET Cells /\ \A c \in H : \A i \in I : c # s[i] /\ c # q.data[s[i]]
    BY <1>3, <1>6
  <1>16. /\ \A i, j \in I : s[i] = s[j] => i = j
         /\ \A i, j \in I : q.data[s[i]] = q.data[s[j]] => i = j
         /\ \A i, j \in I : s[i] # q.data[s[j]]
         /\ q.live = {s[i] : i \in I} \cup {q.data[s[i]] : i \in I} \cup H
    BY <1>9
  <1>17. /\ \A i \in K : /\ Next1(i) \in I /\ Next1(i) # 1 /\ t[i] = s[Next1(i)]
                          /\ r.data[t[i]] = q.data[s[Next1(i)]]
         /\ \A i, j \in K : Next1(i) = Next1(j) => i = j
         /\ \A j \in I : j = 1 \/ \E i \in K : j = Next1(i)
    BY <1>11, <1>12, <1>13
  <1> HIDE DEF I, K
  <1>18. Apart(r, k - 1, t, J)
    <2>1. \A i, j \in K : t[i] = t[j] => i = j
      BY <1>16, <1>17
    <2>2. \A i, j \in K : r.data[t[i]] = r.data[t[j]] => i = j
      BY <1>16, <1>17
    <2>3. \A i, j \in K : t[i] # r.data[t[j]]
      BY <1>16, <1>17
    <2>4. \A i \in K : r.data[t[i]] \in Cells /\ t[i] \notin J /\ r.data[t[i]] \notin J
      BY <1>15, <1>16, <1>17
    <2>5. J \in SUBSET Cells
      BY <1>15
    <2>6. {s[i] : i \in I} = {t[i] : i \in K} \cup {s[1]}
      BY <1>15, <1>17
    <2>7. {q.data[s[i]] : i \in I} = {r.data[t[i]] : i \in K} \cup {q.data[s[1]]}
      BY <1>15, <1>17
    <2>8. r.live = {t[i] : i \in K} \cup {r.data[t[i]] : i \in K} \cup J
      <3>1. s[1] \notin {t[i] : i \in K}
        BY <1>15, <1>16, <1>17
      <3>2. s[1] \notin {r.data[t[i]] : i \in K}
        BY <1>15, <1>16, <1>17
      <3>3. s[1] \notin J
        BY <1>15, <1>16
      <3> QED
        BY <1>8, <1>16, <2>6, <2>7, <3>1, <3>2, <3>3
    <2> HIDE DEF J
    <2> QED
      BY <2>1, <2>2, <2>3, <2>4, <2>5, <2>8 DEF Apart, K
  <1>19. /\ \A i \in 1..k - 1 : r.value[r.data[t[i]]] = q.value[q.data[s[i + 1]]]
         /\ \A c \in J : r.value[c] = q.value[c]
    <2>1. \A c \in J : c \in Cells /\ c # s[1]
      BY <1>15, <1>16
    <2>2. \A c \in J : r.value[c] = q.value[c]
      BY <1>8, <2>1
    <2>3. \A j \in I : q.data[s[j]] \in Cells /\ q.data[s[j]] # s[1]
      BY <1>15, <1>16
    <2>4. \A j \in I : r.value[q.data[s[j]]] = q.value[q.data[s[j]]]
      BY <1>8, <2>3
    <2>5. \A i \in 1..k - 1 : i + 1 \in 1..k /\ r.data[t[i]] = q.data[s[i + 1]]
      BY <1>6, <1>10
    <2> QED
      BY <2>2, <2>4, <2>5 DEF I
  <1>20. Filled(r, k - 1, t)
    <2>1. \A i \in 1..k - 1 : r.value[r.data[t[i]]] = q.value[q.data[s[i + 1]]] /\ i + 1 \in 1..k
      BY <1>6, <1>19
    <2> QED
      BY <1>3, <2>1 DEF Filled
  <1>21. ~r.bad
    BY <1>3, <1>8
  <1> QED
    <2>1. Owned(r, k - 1, t, J)
      BY <1>8, <1>14, <1>18, <1>20, <1>21 DEF Owned
    <2> QED
      BY <1>7, <1>19, <2>1 DEF Dequeued, r

\* The queue r without the item d that was handed out.
Freed(q, k, s, H, d, r) ==
  /\ Owned(r, k, s, H \ {d})
  /\ \A i \in 1..k : r.value[r.data[s[i]]] = q.value[q.data[s[i]]]
  /\ \A c \in H \ {d} : r.value[c] = q.value[c]

(* The caller frees an item it was handed.                                 *)
LEMMA FreeOwned ==
  ASSUME NEW q, NEW k, NEW s, NEW H, Owned(q, k, s, H), NEW d \in H
  PROVE  Freed(q, k, s, H, d, Q!Free(q, d))
  <1> DEFINE r == Q!Free(q, d)
  <1>1. r = Q!Free(q, d)
    OBVIOUS
  <1> HIDE DEF r
  <1>2. /\ q \in QueueRec /\ ~q.bad /\ k \in Nat /\ s \in [1..k -> Cells] /\ H \in SUBSET Cells
        /\ \A i \in 1..k : s[i] \in q.live /\ q.data[s[i]] \in q.live /\ q.data[s[i]] \in Cells
        /\ \A i \in 1..k : q.value[q.data[s[i]]] \in Items
        /\ \A c \in H : c \in q.live /\ \A i \in 1..k : c # s[i] /\ c # q.data[s[i]]
    BY OwnedIs
  <1>3. Row(q, k, s) /\ Apart(q, k, s, H)
    BY DEF Owned
  <1>4. /\ r \in QueueRec /\ r.bad = q.bad
        /\ r.live = q.live \ {d}
        /\ r.root = q.root /\ r.head = q.head
        /\ \A c \in Cells :
             /\ r.next[c] = IF c = d THEN None ELSE q.next[c]
             /\ r.data[c] = IF c = d THEN None ELSE q.data[c]
             /\ r.value[c] = IF c = d THEN None ELSE q.value[c]
    BY <1>2, <1>1, QueueFreeFields
  <1>5. \A i \in 1..k : /\ s[i] # d /\ q.data[s[i]] # d
                        /\ r.data[s[i]] = q.data[s[i]] /\ r.next[s[i]] = q.next[s[i]]
    BY <1>2, <1>4
  <1>6. Row(r, k, s)
    <2>1. \A c \in Cells : (\A i \in 1..k : s[i] # c) => r.next[c] = None
      BY <1>3, <1>4 DEF Row
    <2> QED
      BY <1>3, <1>4, <1>5, <2>1 DEF Row
  <1>7. Apart(r, k, s, H \ {d})
    <2>1. {r.data[s[i]] : i \in 1..k} = {q.data[s[i]] : i \in 1..k}
      BY <1>5
    <2>2. d \notin {s[i] : i \in 1..k} /\ d \notin {q.data[s[i]] : i \in 1..k}
      BY <1>5
    <2>3. q.live = {s[i] : i \in 1..k} \cup {q.data[s[i]] : i \in 1..k} \cup H
      BY <1>3 DEF Apart
    <2>4. r.live = {s[i] : i \in 1..k} \cup {r.data[s[i]] : i \in 1..k} \cup (H \ {d})
      BY <1>4, <2>1, <2>2, <2>3
    <2> QED
      BY <1>3, <1>5, <2>4 DEF Apart
  <1>8. /\ \A i \in 1..k : r.value[r.data[s[i]]] = q.value[q.data[s[i]]]
        /\ \A c \in H \ {d} : r.value[c] = q.value[c]
    BY <1>2, <1>4, <1>5
  <1>9. Filled(r, k, s)
    BY <1>2, <1>8 DEF Filled
  <1>10. ~r.bad
    BY <1>2, <1>4
  <1> QED
    BY <1>4, <1>6, <1>7, <1>8, <1>9, <1>10 DEF Freed, Owned, r

-----------------------------------------------------------------------------
(* Loops.                                                                  *)

(* A set of numbers that is not empty has a least one.                     *)
LEMMA LeastIs ==
  ASSUME NEW D \in SUBSET Nat, D # {}
  PROVE  \E i \in D : \A j \in D : i <= j
  <1>1. PICK i \in D : \A j \in D : ~(<<j, i>> \in OpToRel(<, Nat))
    BY WFMin, NatLessThanWellFounded
  <1>2. \A j \in D : ~(j < i)
    BY <1>1 DEF OpToRel
  <1> QED
    BY <1>2

(* What holds before the first turn and after each holds after the last.   *)
LEMMA EachTurn ==
  ASSUME NEW n \in Nat, NEW G, 0 \in G, \A i \in 1..n : i - 1 \in G => i \in G
  PROVE  0..n \subseteq G
  <1> DEFINE D == (0..n) \ G
  <1>1. ASSUME NEW i \in D, \A j \in D : i <= j PROVE FALSE
    <2>1. i \in 1..n /\ i - 1 \in 0..n /\ i - 1 < i /\ i - 1 \notin G
      OBVIOUS
    <2> QED
      BY <1>1, <2>1
  <1>2. D \in SUBSET Nat
    OBVIOUS
  <1> HIDE DEF D
  <1>3. D = {}
    BY <1>1, <1>2, LeastIs
  <1> QED
    BY <1>3 DEF D

-----------------------------------------------------------------------------
(* What is read of an owned queue.                                         *)

(* Path finds the nodes.                                                   *)
LEMMA PathIs ==
  ASSUME NEW q, NEW k, NEW s, NEW H, Owned(q, k, s, H)
  PROVE  Q!Path(q, k) = s
  <1> DEFINE x == q.root  f == q.next
             After(c) == [i \in 1..k |-> IF i = 1 THEN x
                                         ELSE IF c[i - 1] = None THEN None ELSE f[c[i - 1]]]
             c == CHOOSE d : d = After(d)
  <1>1. k \in Nat /\ s \in [1..k -> Cells] /\ Row(q, k, s) /\ None \notin Cells
    BY ContainersAssumption DEF Owned, Row
  <1>2. 1 \in 1..k => x = s[1]
    BY <1>1 DEF Row
  <1>3. ASSUME NEW i \in 1..k, i # 1
        PROVE  i - 1 \in 0..k /\ i - 1 \in 1..k /\ s[i - 1] # None /\ f[s[i - 1]] = s[i]
    <2>1. i - 1 \in 1..k /\ i - 1 # k /\ (i - 1) + 1 = i
      BY <1>1, <1>3
    <2>2. f[s[i - 1]] = IF i - 1 = k THEN None ELSE s[(i - 1) + 1]
      BY <1>1, <2>1 DEF Row
    <2> QED
      BY <1>1, <2>1, <2>2
  <1>4. Q!Path(q, k) = c
    BY DEF Q!Path
  <1> HIDE DEF x, f
  <1>5. s = After(s)
    <2>1. \A i \in 1..k : s[i] = IF i = 1 THEN x
                                 ELSE IF s[i - 1] = None THEN None ELSE f[s[i - 1]]
      BY <1>2, <1>3
    <2> QED
      BY <1>1, <2>1
  <1>6. c = After(c)
    <2> HIDE DEF After
    <2> QED
      BY <1>5
  <1> HIDE DEF c
  <1>7. /\ c = [i \in 1..k |-> c[i]]
        /\ \A i \in 1..k : c[i] = IF i = 1 THEN x
                                  ELSE IF c[i - 1] = None THEN None ELSE f[c[i - 1]]
    BY <1>6
  <1> DEFINE G == {0} \cup {i \in 1..k : c[i] = s[i]}
  <1>8. ASSUME NEW i \in 1..k, i - 1 \in G PROVE i \in G
    <2>1. CASE i = 1
      BY <1>2, <1>7, <2>1
    <2>2. CASE i # 1
      <3>1. c[i - 1] = s[i - 1]
        BY <1>3, <1>8, <2>2
      <3> QED
        BY <1>3, <1>7, <2>2, <3>1
    <2> QED
      BY <2>1, <2>2
  <1>9. 0..k \subseteq G
    <2>1. 0 \in G
      OBVIOUS
    <2> HIDE DEF G
    <2> QED
      BY <1>1, <1>8, <2>1, EachTurn
  <1>10. \A i \in 1..k : c[i] = s[i]
    <2>1. \A i \in 1..k : i \in 0..k /\ i # 0
      BY <1>1
    <2> QED
      BY <1>9, <2>1
  <1>11. c = s
    BY <1>1, <1>7, <1>10
  <1> QED
    BY <1>4, <1>11

(* Two finite sets without a common element.                               *)
LEMMA DisjointCount ==
  ASSUME NEW V, NEW T, IsFiniteSet(V), IsFiniteSet(T), V \cap T = {}
  PROVE  IsFiniteSet(V \cup T) /\ Cardinality(V \cup T) = Cardinality(V) + Cardinality(T)
  <1>1. /\ IsFiniteSet(V \cup T)
        /\ Cardinality(V \cup T) = Cardinality(V) + Cardinality(T) - Cardinality(V \cap T)
    BY FS_Union
  <1>2. Cardinality(V \cap T) = 0
    BY FS_EmptySet
  <1>3. Cardinality(V) \in Nat /\ Cardinality(T) \in Nat
    BY FS_CardinalityType
  <1> QED
    BY <1>1, <1>2, <1>3

(* A node and an item for each of the k, and the cells of H.               *)
LEMMA LiveIs ==
  ASSUME NEW q, NEW k, NEW s, NEW H, Owned(q, k, s, H), IsFiniteSet(H)
  PROVE  /\ IsFiniteSet(q.live)
         /\ Cardinality(q.live) = 2 * k + Cardinality(H)
         /\ Cardinality(q.live) \in Nat /\ Cardinality(H) \in Nat
         /\ (Cardinality(q.live) - Cardinality(H)) \div 2 = k
  <1> DEFINE ds == [i \in 1..k |-> q.data[s[i]]]
             N == {s[i] : i \in 1..k}  D == {q.data[s[i]] : i \in 1..k}
  <1>1. /\ k \in Nat /\ s \in [1..k -> Cells] /\ Apart(q, k, s, H)
        /\ \A i, j \in 1..k : s[i] = s[j] => i = j
        /\ \A i, j \in 1..k : q.data[s[i]] = q.data[s[j]] => i = j
        /\ q.live = N \cup D \cup H
    BY DEF Owned, Row, Apart
  <1>2. IsFiniteSet(1..k) /\ Cardinality(1..k) = k
    BY <1>1, FS_Interval
  <1>3. IsFiniteSet(N) /\ Cardinality(N) = k
    <2>1. s \in Bijection(1..k, N)
      BY <1>1 DEF Bijection, Injection, Surjection, IsInjective
    <2> HIDE DEF N
    <2> QED
      BY <1>2, <2>1, FS_Bijection DEF ExistsBijection
  <1>4. IsFiniteSet(D) /\ Cardinality(D) = k
    <2>1. ds \in Bijection(1..k, D)
      BY <1>1 DEF Bijection, Injection, Surjection, IsInjective
    <2> HIDE DEF D, ds
    <2> QED
      BY <1>2, <2>1, FS_Bijection DEF ExistsBijection
  <1>5. N \cap D = {} /\ (N \cup D) \cap H = {}
    BY <1>1 DEF Apart
  <1> HIDE DEF N, D
  <1>6. IsFiniteSet(N \cup D) /\ Cardinality(N \cup D) = k + k
    <2>1. IsFiniteSet(N) /\ IsFiniteSet(D) /\ N \cap D = {}
      BY <1>3, <1>4, <1>5
    <2>2. IsFiniteSet(N \cup D) /\ Cardinality(N \cup D) = Cardinality(N) + Cardinality(D)
      BY <2>1, DisjointCount
    <2> QED
      BY <1>3, <1>4, <2>2
  <1>7. IsFiniteSet(q.live) /\ Cardinality(q.live) = (k + k) + Cardinality(H)
    <2> DEFINE M == N \cup D
    <2>1. q.live = M \cup H /\ M \cap H = {} /\ IsFiniteSet(M) /\ Cardinality(M) = k + k
      BY <1>1, <1>5, <1>6
    <2> HIDE DEF M
    <2> QED
      BY <2>1, DisjointCount
  <1>8. Cardinality(H) \in Nat
    BY FS_CardinalityType
  <1> DEFINE h == Cardinality(H)
  <1> HIDE DEF h
  <1>9. ((k + k) + h) - h = 2 * k /\ (2 * k) \div 2 = k
    BY <1>1, <1>8 DEF h
  <1> QED
    BY <1>1, <1>7, <1>8, <1>9 DEF h

-----------------------------------------------------------------------------
(* queue_clear.                                                            *)

\* One turn of its loop.
ClearTurn(p) ==
  IF p.root = None THEN p ELSE Q!Free(Q!AfterDequeue(p), p.data[p.root])

\* w[i] is the queue after i turns.
ClearTurns(q, n, w) == w[0] = q /\ \A i \in 1..n : w[i] = ClearTurn(w[i - 1])

(* A loop makes its turns one by one.                                      *)
LEMMA TurnsExist ==
  ASSUME NEW n \in Nat, NEW q
  PROVE  \E w : ClearTurns(q, n, w)
  <1> DEFINE Ok(k) == \E w : ClearTurns(q, k, w)  G == {k \in 0..n : Ok(k)}
  <1>1. 0 \in G
    <2> DEFINE w == [i \in {0} |-> q]
    <2>1. w[0] = q /\ 1..0 = {}
      OBVIOUS
    <2> HIDE DEF w
    <2>2. Ok(0)
      BY <2>1 DEF ClearTurns
    <2> QED
      BY <2>2
  <1>2. ASSUME NEW k \in 1..n, k - 1 \in G PROVE k \in G
    <2>1. PICK w : ClearTurns(q, k - 1, w)
      BY <1>2
    <2> DEFINE v == [i \in 0..k |-> IF i = k THEN ClearTurn(w[k - 1]) ELSE w[i]]
    <2>2. \A i \in 0..k : v[i] = IF i = k THEN ClearTurn(w[k - 1]) ELSE w[i]
      OBVIOUS
    <2> HIDE DEF v
    <2>3. 0 \in 0..k /\ 0 # k /\ k \in 0..k /\ k \in 0..n
      OBVIOUS
    <2>4. v[0] = q
      BY <2>1, <2>2, <2>3 DEF ClearTurns
    <2>5. ASSUME NEW i \in 1..k PROVE v[i] = ClearTurn(v[i - 1])
      <3>1. i - 1 \in 0..k /\ i - 1 # k /\ i \in 0..k
        OBVIOUS
      <3>2. v[i - 1] = w[i - 1]
        BY <2>2, <3>1
      <3>3. CASE i = k
        BY <2>2, <3>1, <3>2, <3>3
      <3>4. CASE i # k
        <4>1. i \in 1..(k - 1)
          BY <3>4
        <4>2. w[i] = ClearTurn(w[i - 1])
          BY <2>1, <4>1 DEF ClearTurns
        <4> QED
          BY <2>2, <3>1, <3>2, <3>4, <4>2
      <3> QED
        BY <3>3, <3>4
    <2>6. Ok(k)
      BY <2>4, <2>5 DEF ClearTurns
    <2> QED
      BY <2>3, <2>6
  <1>3. n \in G
    <2>1. n \in 0..n
      OBVIOUS
    <2> HIDE DEF G
    <2> QED
      BY <1>1, <1>2, <2>1, EachTurn
  <1> QED
    BY <1>3

(* The largest number of an interval, and of any set of its numbers.       *)
LEMMA LargestIs ==
  ASSUME NEW n \in Nat
  PROVE  /\ \A i \in 1..n : Q!Max(1..i) = i
         /\ \A T \in SUBSET (1..n) : T # {} => Q!Max(T) \in T
  <1>1. ASSUME NEW i \in 1..n PROVE Q!Max(1..i) = i
    <2>1. \A x \in 1..i : (\A y \in 1..i : x >= y) => x = i
      OBVIOUS
    <2>2. i \in 1..i /\ \A y \in 1..i : i >= y
      OBVIOUS
    <2> QED
      BY <2>1, <2>2 DEF Q!Max
  <1>2. ASSUME NEW T \in SUBSET (1..n), T # {} PROVE Q!Max(T) \in T
    <2> DEFINE D == {n - j : j \in T}
    <2>1. D \in SUBSET Nat /\ D # {}
      <3>1. \A j \in T : n - j \in Nat
        OBVIOUS
      <3> QED
        BY <1>2, <3>1
    <2>2. PICK d \in D : \A e \in D : d <= e
      <3> HIDE DEF D
      <3> QED
        BY <2>1, LeastIs
    <2>3. PICK i \in T : d = n - i
      OBVIOUS
    <2>4. \A j \in T : i >= j
      <3> SUFFICES ASSUME NEW j \in T PROVE i >= j
        OBVIOUS
      <3>1. n - i <= n - j
        BY <2>2, <2>3
      <3> QED
        BY <3>1
    <2> QED
      BY <2>4 DEF Q!Max
  <1> QED
    BY <1>1, <1>2

(* Cardinality, as Queue and as the theorems name it.                      *)
LEMMA QueueCounts == \A T : Q!Cardinality(T) = Cardinality(T)
  BY DEF Q!Cardinality, Cardinality

(* Cleared is the queue after as many turns as it had cells.               *)
LEMMA ClearedIs ==
  ASSUME NEW q, IsFiniteSet(q.live)
  PROVE  \E w : ClearTurns(q, Cardinality(q.live), w) /\ Q!Cleared(q) = w[Cardinality(q.live)]
  <1> DEFINE n == Cardinality(q.live)
             u == [i \in 1..n |-> i]
             After(h) == [T \in SUBSET DOMAIN u |->
                           IF T = {} THEN q ELSE LET x == Q!Max(T) IN ClearTurn(h[T \ {x}])]
             f == CHOOSE h : h = After(h)
  <1>1. Q!Cleared(q) = f[DOMAIN u]
    BY QueueCounts DEF Q!Cleared, Q!FoldLeft, Q!MapThenFoldSet, ClearTurn
  <1>2. n \in Nat /\ DOMAIN u = 1..n
    BY FS_CardinalityType
  <1> HIDE DEF n, u
  <1>3. PICK w : ClearTurns(q, n, w)
    BY <1>2, TurnsExist
  <1> DEFINE g == [T \in SUBSET (1..n) |-> w[Cardinality(T)]]
  <1>4. g = After(g)
    <2>1. ASSUME NEW T \in SUBSET (1..n), T # {}
          PROVE  g[T] = ClearTurn(g[T \ {Q!Max(T)}])
      <3> DEFINE x == Q!Max(T)  c == Cardinality(T)
      <3>1. x \in T
        BY <1>2, <2>1, LargestIs
      <3>2. IsFiniteSet(1..n) /\ Cardinality(1..n) = n
        BY <1>2, FS_Interval
      <3>3. IsFiniteSet(T) /\ c <= n /\ c \in Nat
        BY <3>2, FS_Subset, FS_CardinalityType
      <3> HIDE DEF x
      <3>4. Cardinality(T \ {x}) = c - 1
        BY <3>1, <3>3, FS_RemoveElement
      <3>5. c # 0
        BY <3>1, <3>3, FS_EmptySet
      <3> HIDE DEF c
      <3>6. c \in 1..n
        BY <1>2, <3>3, <3>5
      <3>7. w[c] = ClearTurn(w[c - 1])
        BY <1>3, <3>6 DEF ClearTurns
      <3>8. g[T] = w[c] /\ g[T \ {x}] = w[c - 1]
        BY <3>4 DEF c
      <3> HIDE DEF g
      <3> QED
        BY <3>7, <3>8 DEF x
    <2>2. g[{}] = q
      <3>1. g[{}] = w[0]
        BY FS_EmptySet
      <3> HIDE DEF g
      <3> QED
        BY <1>3, <3>1 DEF ClearTurns
    <2>3. g = [T \in SUBSET (1..n) |-> g[T]]
      OBVIOUS
    <2> HIDE DEF g
    <2> QED
      BY <1>2, <2>1, <2>2, <2>3
  <1>5. f = After(f)
    <2> HIDE DEF After, g
    <2> QED
      BY <1>4
  <1> HIDE DEF f, g
  <1>6. f[{}] = q
    BY <1>5
  <1>7. ASSUME NEW T \in SUBSET (1..n), T # {} PROVE f[T] = ClearTurn(f[T \ {Q!Max(T)}])
    BY <1>2, <1>5, <1>7
  <1> DEFINE G == {i \in 0..n : f[1..i] = w[i]}
  <1>8. 0 \in G
    <2>1. 1..0 = {} /\ 0 \in 0..n
      BY <1>2
    <2> QED
      BY <1>3, <1>6, <2>1 DEF ClearTurns
  <1>9. ASSUME NEW i \in 1..n, i - 1 \in G PROVE i \in G
    <2>1. 1..i \in SUBSET (1..n) /\ 1..i # {} /\ (1..i) \ {i} = 1..(i - 1) /\ i \in 0..n
      BY <1>2
    <2>2. Q!Max(1..i) = i
      BY <1>2, LargestIs
    <2>3. f[1..i] = ClearTurn(f[1..(i - 1)])
      BY <1>7, <2>1, <2>2
    <2>4. f[1..(i - 1)] = w[i - 1]
      BY <1>9
    <2>5. w[i] = ClearTurn(w[i - 1])
      BY <1>3 DEF ClearTurns
    <2> QED
      BY <2>1, <2>3, <2>4, <2>5
  <1>10. n \in G
    <2>1. n \in 0..n
      BY <1>2
    <2> HIDE DEF G
    <2> QED
      BY <1>2, <1>8, <1>9, <2>1, EachTurn
  <1>11. f[1..n] = w[n]
    BY <1>10
  <1> QED
    BY <1>1, <1>2, <1>3, <1>11 DEF n

\* Queue p is q without its nodes, or some of them: k are left.
Emptied(p, q, k, H) ==
  /\ \E s : Owned(p, k, s, H)
  /\ \A c \in H : p.value[c] = q.value[c]

(* A turn of the loop removes one node and its item, if there is one.      *)
LEMMA TurnOwned ==
  ASSUME NEW q, NEW p, NEW k, NEW H, Emptied(p, q, k, H)
  PROVE  Emptied(ClearTurn(p), q, IF k = 0 THEN 0 ELSE k - 1, H)
  <1>1. PICK s : Owned(p, k, s, H)
    BY DEF Emptied
  <1>2. /\ p \in QueueRec /\ k \in Nat /\ s \in [1..k -> Cells] /\ Row(p, k, s)
        /\ H \in SUBSET Cells
        /\ \A i \in 1..k : p.data[s[i]] \in Cells /\ p.data[s[i]] \notin H
    BY <1>1, OwnedIs DEF Owned
  <1>3. CASE k = 0
    <2>1. ClearTurn(p) = p
      BY <1>2, <1>3 DEF Row, ClearTurn
    <2> QED
      BY <1>3, <2>1
  <1>4. CASE k # 0
    <2> DEFINE t == [i \in 1..k - 1 |-> s[i + 1]]
               d == p.data[s[1]]
               r == Q!AfterDequeue(p)
               J == H \cup {d}
               v == Q!Free(r, d)
    <2>1. t \in [1..k - 1 -> Cells] /\ \A i \in 1..k - 1 : t[i] = s[i + 1]
      BY <1>2
    <2> HIDE DEF t
    <2>2. /\ p.root = s[1] /\ Owned(r, k - 1, t, H \cup {p.data[s[1]]})
          /\ \A c \in H \cup {p.data[s[1]]} : r.value[c] = p.value[c]
      <3>1. Dequeued(p, k, s, H, r, t)
        BY <1>1, <1>4, <2>1, DequeueOwned DEF Shorter
      <3> HIDE DEF r
      <3> QED
        BY <3>1 DEF Dequeued
    <2>3. 1 \in 1..k
      BY <1>2, <1>4
    <2>4. d \notin H /\ d \in J /\ J \ {d} = H
      BY <1>2, <2>3
    <2>5. s[1] # None
      BY <1>2, <2>3, ContainersAssumption
    <2>6. ClearTurn(p) = v
      BY <2>2, <2>5 DEF ClearTurn
    <2>7. Owned(r, k - 1, t, J) /\ \A c \in J : r.value[c] = p.value[c]
      BY <2>2
    <2> HIDE DEF r, J, d
    <2>8. Owned(v, k - 1, t, J \ {d}) /\ \A c \in J \ {d} : v.value[c] = r.value[c]
      <3>1. Freed(r, k - 1, t, J, d, v)
        BY <2>4, <2>7, FreeOwned
      <3> QED
        BY <3>1 DEF Freed
    <2> HIDE DEF v
    <2>9. Owned(v, k - 1, t, H) /\ \A c \in H : v.value[c] = p.value[c]
      BY <2>4, <2>7, <2>8
    <2>10. \A c \in H : v.value[c] = q.value[c]
      BY <2>9 DEF Emptied
    <2>11. Emptied(v, q, k - 1, H)
      BY <2>9, <2>10 DEF Emptied
    <2> QED
      BY <1>4, <2>6, <2>11
  <1> QED
    BY <1>3, <1>4

(* Nothing is left in a queue that was cleared.                            *)
LEMMA ClearOwned ==
  ASSUME NEW q, NEW k, NEW s, NEW H, Owned(q, k, s, H), IsFiniteSet(H)
  PROVE  Emptied(Q!Cleared(q), q, 0, H)
  <1> DEFINE n == Cardinality(q.live)
             Left(i) == IF i <= k THEN k - i ELSE 0
  <1>1. IsFiniteSet(q.live) /\ n \in Nat /\ n = 2 * k + Cardinality(H) /\ Cardinality(H) \in Nat
    BY LiveIs
  <1>2. k \in Nat
    BY OwnedIs
  <1> HIDE DEF n
  <1>3. n >= k
    BY <1>1, <1>2
  <1>4. PICK w : ClearTurns(q, n, w) /\ Q!Cleared(q) = w[n]
    BY <1>1, ClearedIs DEF n
  <1> DEFINE G == {i \in 0..n : Emptied(w[i], q, Left(i), H)}
  <1>5. 0 \in G
    <2>1. Left(0) = k /\ 0 \in 0..n
      BY <1>1, <1>2
    <2>2. w[0] = q
      BY <1>4 DEF ClearTurns
    <2>3. Emptied(q, q, k, H)
      BY DEF Emptied
    <2> QED
      BY <2>1, <2>2, <2>3
  <1>6. ASSUME NEW i \in 1..n, i - 1 \in G PROVE i \in G
    <2>1. i \in 0..n /\ i \in Nat /\ i - 1 \in Nat
      BY <1>1
    <2> DEFINE m == Left(i - 1)
    <2>2. Left(i) = IF m = 0 THEN 0 ELSE m - 1
      BY <1>2, <2>1
    <2>3. Emptied(w[i - 1], q, m, H)
      BY <1>6
    <2> HIDE DEF m, Left
    <2>4. Emptied(ClearTurn(w[i - 1]), q, Left(i), H)
      BY <2>2, <2>3, TurnOwned
    <2>5. w[i] = ClearTurn(w[i - 1])
      BY <1>4 DEF ClearTurns
    <2> QED
      BY <2>1, <2>4, <2>5
  <1>7. n \in G
    <2>1. n \in 0..n
      BY <1>1
    <2> HIDE DEF G
    <2> QED
      BY <1>1, <1>5, <1>6, <2>1, EachTurn
  <1>8. Left(n) = 0
    BY <1>1, <1>2, <1>3
  <1> QED
    BY <1>4, <1>7, <1>8

-----------------------------------------------------------------------------
(* The items of the k nodes s, oldest first.                               *)
Fifo(q, k, s) == [i \in 1..k |-> q.value[q.data[s[i]]]]

(* The queue owns its memory, and f is what is in it.                      *)
Holds(q, H, f) == \E k, s : Owned(q, k, s, H) /\ f = Fifo(q, k, s)

(* They are a sequence.                                                    *)
LEMMA FifoIs ==
  ASSUME NEW q, NEW k, NEW s, NEW H, Owned(q, k, s, H)
  PROVE  /\ k \in Nat /\ Fifo(q, k, s) \in Seq(Items) /\ Len(Fifo(q, k, s)) = k
         /\ \A i \in 1..k : Fifo(q, k, s)[i] = q.value[q.data[s[i]]]
  <1>1. k \in Nat /\ \A i \in 1..k : q.value[q.data[s[i]]] \in Items
    BY OwnedIs
  <1>2. /\ Fifo(q, k, s) \in [1..k -> Items]
        /\ \A i \in 1..k : Fifo(q, k, s)[i] = q.value[q.data[s[i]]]
    BY <1>1 DEF Fifo
  <1> QED
    BY <1>1, <1>2, SequenceIs

(* queue_create, enqueue, dequeue, free and queue_clear, by what the queue *)
(* holds before and after, and what was handed out beside it.              *)
LEMMA CreatedHolds == Holds(Q!Created, {}, <<>>) /\ Q!Created.head = None
  <1> DEFINE q == Q!Created  s == [i \in 1..0 |-> None]
  <1>1. /\ q.live = {} /\ q.next = Q!Blank /\ q.data = Q!Blank /\ q.value = Q!Blank
        /\ q.root = None /\ q.head = None /\ q.bad = FALSE
    BY DEF Q!Created
  <1>2. q \in QueueRec
    <2>1. Q!Blank \in CellLinks /\ Q!Blank \in CellValues
      BY DEF Q!Blank, CellLinks, CellValues, CellPtr
    <2> QED
      BY <2>1 DEF Q!Created, QueueRec, CellSet, CellPtr
  <1>3. \A c \in Cells : q.next[c] = None
    BY <1>1 DEF Q!Blank
  <1>4. 1..0 = {} /\ s \in [1..0 -> Cells]
    OBVIOUS
  <1> HIDE DEF q, s
  <1>5. Row(q, 0, s)
    BY <1>1, <1>3, <1>4 DEF Row
  <1>6. Apart(q, 0, s, {}) /\ Filled(q, 0, s)
    BY <1>1, <1>4 DEF Apart, Filled
  <1>7. Owned(q, 0, s, {})
    <2>1. ~q.bad
      BY <1>1
    <2> QED
      BY <1>2, <1>5, <1>6, <2>1 DEF Owned
  <1>8. <<>> = Fifo(q, 0, s)
    BY <1>4 DEF Fifo
  <1>9. Holds(q, {}, <<>>)
    BY <1>7, <1>8 DEF Holds
  <1> QED
    BY <1>1, <1>9 DEF q

LEMMA EnqueueHolds ==
  ASSUME NEW q, NEW H, NEW f, Holds(q, H, f),
         NEW n \in Cells \ q.live, NEW d \in Cells \ q.live, n # d, NEW x \in Items,
         NEW r, r = Q!Enqueue(q, n, d, x)
  PROVE  /\ Holds(r, H, Append(f, x))
         /\ \A c \in H : r.value[c] = q.value[c]
  <1>1. PICK k, s : Owned(q, k, s, H) /\ f = Fifo(q, k, s)
    BY DEF Holds
  <1>2. k \in Nat /\ s \in [1..k -> Cells]
    BY <1>1, OwnedIs
  <1> DEFINE t == [i \in 1..k + 1 |-> IF i = k + 1 THEN n ELSE s[i]]
             g == Fifo(r, k + 1, t)
  <1>3. Longer(k, s, n, t)
    BY <1>2 DEF Longer
  <1> HIDE DEF t
  <1>4. Enqueued(q, k, s, H, x, r, t)
    BY <1>1, <1>3, EnqueueOwned
  <1>5. /\ Owned(r, k + 1, t, H)
        /\ \A i \in 1..k : r.value[r.data[t[i]]] = q.value[q.data[s[i]]]
        /\ r.value[r.data[t[k + 1]]] = x
        /\ \A c \in H : r.value[c] = q.value[c]
    BY <1>4 DEF Enqueued
  <1>6. /\ f \in Seq(Items) /\ Len(f) = k
        /\ \A i \in 1..k : f[i] = q.value[q.data[s[i]]]
    BY <1>1, FifoIs
  <1>7. /\ g \in Seq(Items) /\ Len(g) = k + 1
        /\ \A i \in 1..k + 1 : g[i] = r.value[r.data[t[i]]]
    BY <1>5, FifoIs
  <1> HIDE DEF g
  <1>8. Append(f, x) = g
    <2>1. /\ Append(f, x) \in Seq(Items) /\ Len(Append(f, x)) = k + 1
          /\ \A i \in 1..k : Append(f, x)[i] = f[i]
          /\ Append(f, x)[k + 1] = x
      BY <1>2, <1>6
    <2>2. \A i \in 1..k + 1 : i \in 1..k \/ i = k + 1
      BY <1>2
    <2>3. \A i \in 1..k + 1 : Append(f, x)[i] = g[i]
      <3>1. ASSUME NEW i \in 1..k PROVE Append(f, x)[i] = g[i]
        <4>1. i \in 1..k + 1
          BY <1>2
        <4> QED
          BY <1>5, <1>6, <1>7, <2>1, <4>1
      <3>2. k + 1 \in 1..k + 1
        BY <1>2
      <3>3. Append(f, x)[k + 1] = g[k + 1]
        BY <1>5, <1>7, <2>1, <3>2
      <3> QED
        BY <2>2, <3>1, <3>3
    <2>4. k + 1 \in Nat
      BY <1>2
    <2> HIDE DEF t
    <2> QED
      BY <1>7, <2>1, <2>3, <2>4, SameSequence
  <1>9. Holds(r, H, Append(f, x))
    BY <1>5, <1>8 DEF Holds, g
  <1> QED
    BY <1>5, <1>9

\* The queue r without its first item, d, which is handed out.
HandedOut(q, H, f, d, r) ==
  /\ d \in Cells /\ d \notin H /\ f # <<>> /\ q.value[d] = Head(f)
  /\ Holds(r, H \cup {d}, Tail(f))
  /\ \A c \in H \cup {d} : r.value[c] = q.value[c]

LEMMA DequeueHolds ==
  ASSUME NEW q, NEW H, NEW f, Holds(q, H, f), q.head # None
  PROVE  HandedOut(q, H, f, q.data[q.root], Q!AfterDequeue(q))
  <1> DEFINE r == Q!AfterDequeue(q)  d == q.data[q.root]
  <1>1. r = Q!AfterDequeue(q) /\ d = q.data[q.root]
    OBVIOUS
  <1> HIDE DEF r, d
  <1>2. PICK k, s : Owned(q, k, s, H) /\ f = Fifo(q, k, s)
    BY DEF Holds
  <1>3. /\ k \in Nat /\ s \in [1..k -> Cells] /\ k # 0
        /\ \A i \in 1..k : q.data[s[i]] \in Cells /\ q.data[s[i]] \notin H
    BY <1>2, OwnedIs DEF Owned, Row, Apart
  <1> DEFINE t == [i \in 1..k - 1 |-> s[i + 1]]
             g == Fifo(r, k - 1, t)
  <1>4. Shorter(k, s, t)
    <2>1. \A i \in 1..k - 1 : i + 1 \in 1..k
      BY <1>3
    <2> QED
      BY <1>3, <2>1 DEF Shorter
  <1>5. 1 \in 1..k
    BY <1>3
  <1> HIDE DEF t
  <1>6. Dequeued(q, k, s, H, r, t)
    BY <1>2, <1>3, <1>4, <1>1, DequeueOwned
  <1>7. /\ d = q.data[s[1]]
        /\ Owned(r, k - 1, t, H \cup {d})
        /\ \A i \in 1..k - 1 : r.value[r.data[t[i]]] = q.value[q.data[s[i + 1]]]
        /\ \A c \in H \cup {d} : r.value[c] = q.value[c]
    BY <1>6, <1>1 DEF Dequeued
  <1>8. /\ f \in Seq(Items) /\ Len(f) = k
        /\ \A i \in 1..k : f[i] = q.value[q.data[s[i]]]
    BY <1>2, FifoIs
  <1>9. /\ g \in Seq(Items) /\ Len(g) = k - 1
        /\ \A i \in 1..k - 1 : g[i] = r.value[r.data[t[i]]]
    BY <1>7, FifoIs
  <1> HIDE DEF g
  <1>10. f # <<>> /\ Head(f) = q.value[d]
    <2>1. f[1] = q.value[d]
      BY <1>5, <1>7, <1>8
    <2>2. f # <<>>
      BY <1>3, <1>8
    <2> QED
      BY <1>8, <2>1, <2>2
  <1>11. Tail(f) = g
    <2>1. /\ Tail(f) \in Seq(Items) /\ Len(Tail(f)) = k - 1
          /\ \A i \in 1..k - 1 : Tail(f)[i] = f[i + 1]
      BY <1>8, <1>10
    <2>2. ASSUME NEW i \in 1..k - 1 PROVE Tail(f)[i] = g[i]
      <3>1. i + 1 \in 1..k
        BY <1>3
      <3>2. Tail(f)[i] = q.value[q.data[s[i + 1]]]
        BY <1>8, <2>1, <3>1
      <3> QED
        BY <1>7, <1>9, <3>2
    <2>3. k - 1 \in Nat
      BY <1>3
    <2> QED
      BY <1>9, <2>1, <2>2, <2>3, SameSequence
  <1>12. Holds(r, H \cup {d}, Tail(f))
    BY <1>7, <1>11 DEF Holds, g
  <1>13. d \in Cells /\ d \notin H
    BY <1>3, <1>5, <1>7
  <1> QED
    BY <1>7, <1>10, <1>12, <1>13 DEF HandedOut, r, d

LEMMA FreeHolds ==
  ASSUME NEW q, NEW H, NEW f, Holds(q, H, f), NEW d \in H, NEW r, r = Q!Free(q, d)
  PROVE  /\ Holds(r, H \ {d}, f)
         /\ \A c \in H \ {d} : r.value[c] = q.value[c]
  <1>1. PICK k, s : Owned(q, k, s, H) /\ f = Fifo(q, k, s)
    BY DEF Holds
  <1>2. Freed(q, k, s, H, d, r)
    BY <1>1, FreeOwned
  <1>3. \A i \in 1..k : r.value[r.data[s[i]]] = q.value[q.data[s[i]]]
    BY <1>2 DEF Freed
  <1>4. \A c \in H \ {d} : r.value[c] = q.value[c]
    BY <1>2 DEF Freed
  <1>5. f = Fifo(r, k, s)
    BY <1>1, <1>3 DEF Fifo
  <1>6. Holds(r, H \ {d}, f)
    BY <1>2, <1>5 DEF Freed, Holds
  <1> QED
    BY <1>4, <1>6

LEMMA ClearHolds ==
  ASSUME NEW q, NEW H, NEW f, Holds(q, H, f), IsFiniteSet(H), NEW r, r = Q!Cleared(q)
  PROVE  /\ Holds(r, H, <<>>)
         /\ \A c \in H : r.value[c] = q.value[c]
  <1>1. PICK k, s : Owned(q, k, s, H)
    BY DEF Holds
  <1>2. Emptied(r, q, 0, H)
    BY <1>1, ClearOwned
  <1>3. PICK t : Owned(r, 0, t, H)
    BY <1>2 DEF Emptied
  <1>4. <<>> = Fifo(r, 0, t)
    BY DEF Fifo
  <1>5. Holds(r, H, <<>>)
    BY <1>3, <1>4 DEF Holds
  <1> QED
    BY <1>2, <1>5 DEF Emptied

(* What the queue holds, as the properties read it: its nodes, and their   *)
(* items.                                                                  *)
NodesOf(q, H) == Q!Path(q, (Cardinality(q.live) - Cardinality(H)) \div 2)
ItemsOf(q, H) == [i \in DOMAIN NodesOf(q, H) |-> q.value[q.data[NodesOf(q, H)[i]]]]

(* They are those of the row.                                              *)
LEMMA NodesOfIs ==
  ASSUME NEW q, NEW k, NEW s, NEW H, Owned(q, k, s, H), IsFiniteSet(H)
  PROVE  NodesOf(q, H) = s /\ ItemsOf(q, H) = Fifo(q, k, s)
  <1>1. NodesOf(q, H) = s
    <2>1. (Cardinality(q.live) - Cardinality(H)) \div 2 = k
      BY LiveIs
    <2>2. Q!Path(q, k) = s
      BY PathIs
    <2> QED
      BY <2>1, <2>2 DEF NodesOf
  <1>2. DOMAIN s = 1..k
    BY OwnedIs
  <1> QED
    BY <1>1, <1>2 DEF ItemsOf, Fifo

(* They are what the queue holds.                                          *)
LEMMA ItemsOfIs ==
  ASSUME NEW q, NEW H, NEW f, Holds(q, H, f), IsFiniteSet(H)
  PROVE  ItemsOf(q, H) = f
  BY NodesOfIs DEF Holds

(* The inductive invariant.  The queue holds f, the items handed out and   *)
(* not freed yet are allocated beside it, and are as they were.            *)
QueueIs(q, h, f) ==
  /\ IsFiniteSet(DOMAIN h)
  /\ Holds(q, DOMAIN h, f)
  /\ \A d \in DOMAIN h : q.value[d] = h[d]
QueueInv == \E f : QueueIs(queue, held, f)

-----------------------------------------------------------------------------
(* The steps.                                                              *)
(* enqueue.                                                                *)
LEMMA EnqueueStep ==
  ASSUME NEW f, QueueIs(queue, held, f), NEW x \in Items, Enqueue(x)
  PROVE  QueueIs(queue', held', Append(f, x))
  <1>1. PICK n, d \in Cells \ queue.live : n # d /\ queue' = Q!Enqueue(queue, n, d, x)
    BY DEF Enqueue
  <1>2. held' = held
    BY DEF Enqueue
  <1>3. /\ Holds(queue', DOMAIN held, Append(f, x))
        /\ \A c \in DOMAIN held : queue'.value[c] = queue.value[c]
    BY <1>1, EnqueueHolds DEF QueueIs
  <1> QED
    BY <1>2, <1>3 DEF QueueIs

(* dequeue.                                                                *)
LEMMA DequeueStep ==
  ASSUME NEW f, QueueIs(queue, held, f), Dequeue
  PROVE  QueueIs(queue', held', Tail(f)) /\ f # <<>> /\ ret' = Head(f)
  <1> DEFINE d == queue.data[queue.root]  H == DOMAIN held
  <1>1. queue.head # None /\ queue' = Q!AfterDequeue(queue)
    BY DEF Dequeue
  <1>2. /\ held' = [c \in DOMAIN held \cup {d} |-> IF c = d THEN queue.value[d] ELSE held[c]]
        /\ ret' = queue.value[d]
    BY DEF Dequeue
  <1>3. Holds(queue, H, f) /\ IsFiniteSet(H)
    BY DEF QueueIs
  <1>4. \A c \in H : queue.value[c] = held[c]
    BY DEF QueueIs
  <1>5. HandedOut(queue, H, f, d, queue')
    BY <1>1, <1>3, DequeueHolds
  <1> HIDE DEF d
  <1>6. /\ DOMAIN held' = H \cup {d}
        /\ \A c \in H \cup {d} : held'[c] = IF c = d THEN queue.value[d] ELSE held[c]
    BY <1>2
  <1> HIDE DEF H
  <1>7. /\ d \in Cells /\ f # <<>> /\ queue.value[d] = Head(f)
        /\ Holds(queue', H \cup {d}, Tail(f))
        /\ \A c \in H \cup {d} : queue'.value[c] = queue.value[c]
    BY <1>5 DEF HandedOut
  <1>8. IsFiniteSet(H \cup {d})
    BY <1>3, FS_AddElement
  <1>9. \A c \in H \cup {d} : queue'.value[c] = held'[c]
    BY <1>4, <1>6, <1>7
  <1>10. QueueIs(queue', held', Tail(f))
    BY <1>6, <1>7, <1>8, <1>9 DEF QueueIs
  <1> QED
    BY <1>2, <1>7, <1>10

(* free of an item that was handed out.                                    *)
LEMMA ReleaseStep ==
  ASSUME NEW f, QueueIs(queue, held, f), NEW d \in DOMAIN held, Release(d)
  PROVE  QueueIs(queue', held', f)
  <1> DEFINE H == DOMAIN held
  <1>1. /\ queue' = Q!Free(queue, d) /\ DOMAIN held' = H \ {d}
        /\ \A c \in H \ {d} : held'[c] = held[c]
    BY DEF Release
  <1>2. Holds(queue, H, f) /\ IsFiniteSet(H) /\ d \in H
    BY DEF QueueIs
  <1>3. \A c \in H : queue.value[c] = held[c]
    BY DEF QueueIs
  <1> HIDE DEF H
  <1>4. /\ Holds(queue', H \ {d}, f)
        /\ \A c \in H \ {d} : queue'.value[c] = queue.value[c]
    BY <1>1, <1>2, FreeHolds
  <1>5. IsFiniteSet(H \ {d})
    BY <1>2, FS_Subset
  <1> QED
    BY <1>1, <1>3, <1>4, <1>5 DEF QueueIs

(* queue_clear.                                                            *)
LEMMA ClearStep ==
  ASSUME NEW f, QueueIs(queue, held, f), Clear
  PROVE  QueueIs(queue', held', <<>>)
  <1>1. queue' = Q!Cleared(queue) /\ held' = held
    BY DEF Clear
  <1>2. /\ Holds(queue', DOMAIN held, <<>>)
        /\ \A c \in DOMAIN held : queue'.value[c] = queue.value[c]
    BY <1>1, ClearHolds DEF QueueIs
  <1> QED
    BY <1>1, <1>2 DEF QueueIs

(* No other step touches the queue.                                        *)
LEMMA QueueKept == QueueInv /\ [Next]_vars => QueueInv'
  <1> SUFFICES ASSUME QueueInv, [Next]_vars PROVE QueueInv'
    OBVIOUS
  <1>1. PICK f : QueueIs(queue, held, f)
    BY DEF QueueInv
  <1>2. ASSUME NEW x \in Items, Enqueue(x) PROVE QueueInv'
    BY <1>1, <1>2, EnqueueStep DEF QueueInv
  <1>3. CASE Dequeue
    BY <1>1, <1>3, DequeueStep DEF QueueInv
  <1>4. ASSUME NEW d \in DOMAIN held, Release(d) PROVE QueueInv'
    BY <1>1, <1>4, ReleaseStep DEF QueueInv
  <1>5. CASE Clear
    BY <1>1, <1>5, ClearStep DEF QueueInv
  <1>6. CASE UNCHANGED <<queue, held>>
    BY <1>1, <1>6 DEF QueueInv
  <1>7. ASSUME NEW x \in Items, Push(x) PROVE UNCHANGED <<queue, held>>
    BY <1>7 DEF Push
  <1>8. ASSUME NEW n \in Nodes, Move(n) PROVE UNCHANGED <<queue, held>>
    BY <1>8 DEF Move
  <1>9. CASE Pop
    BY <1>6, <1>9 DEF Pop
  <1>10. CASE PoolAlloc \/ BumpReset
    BY <1>6, <1>10 DEF PoolAlloc, BumpReset, lists
  <1>11. ASSUME NEW b, PoolFree(b) PROVE QueueInv'
    BY <1>6, <1>11 DEF PoolFree, lists
  <1>12. ASSUME NEW n, BumpAlloc(n) PROVE QueueInv'
    BY <1>6, <1>12 DEF BumpAlloc, lists
  <1>13. CASE UNCHANGED vars
    BY <1>6, <1>13 DEF vars, lists
  <1> QED
    BY <1>2, <1>3, <1>4, <1>5, <1>6, <1>7, <1>8, <1>9, <1>10, <1>11, <1>12, <1>13 DEF Next

(* A new queue is empty.                                                   *)
LEMMA QueueStarts == Init => QueueIs(queue, held, <<>>)
  <1> SUFFICES ASSUME Init PROVE QueueIs(queue, held, <<>>)
    OBVIOUS
  <1>1. queue = Q!Created /\ DOMAIN held = {}
    BY DEF Init
  <1>2. Holds(queue, DOMAIN held, <<>>) /\ IsFiniteSet(DOMAIN held)
    BY <1>1, CreatedHolds, FS_EmptySet
  <1> QED
    BY <1>1, <1>2 DEF QueueIs

(* The invariant holds always.                                             *)
LEMMA QueueInvAlways == Spec => []QueueInv
  <1>1. Init => QueueInv
    BY QueueStarts DEF QueueInv
  <1> QED
    BY <1>1, QueueKept, PTL DEF Spec

-----------------------------------------------------------------------------
(* The queue's memory has one owner: every allocated cell is a node, the   *)
(* item of one node, or an item handed to a caller; none is freed twice or *)
(* leaked by enqueue, dequeue, free or queue_clear, and later calls leave  *)
(* the items handed out alone (QueueOwned).                                *)
THEOREM QueueOwnsMemory == Spec => []QueueOwned
  <1>1. QueueInv => QueueOwned
    <2> SUFFICES ASSUME QueueInv PROVE QueueOwned
      OBVIOUS
    <2> DEFINE H == DOMAIN held
    <2>1. PICK f : QueueIs(queue, held, f)
      BY DEF QueueInv
    <2>2. PICK k, s : Owned(queue, k, s, H)
      BY <2>1 DEF QueueIs, Holds
    <2>3. IsFiniteSet(H) /\ \A d \in H : queue.value[d] = held[d]
      BY <2>1 DEF QueueIs
    <2>4. QueueNodes = s
      BY <2>2, <2>3, NodesOfIs DEF QueueNodes, NodesOf
    <2>5. /\ k \in Nat /\ s \in [1..k -> Cells] /\ ~queue.bad
          /\ queue.live = {s[i] : i \in 1..k} \cup {queue.data[s[i]] : i \in 1..k} \cup H
      BY <2>2 DEF Owned, Row, Apart
    <2>6. s \in Seq(Cells) /\ Len(s) = k /\ DOMAIN s = 1..k
      BY <2>5, SequenceIs
    <2>7. ToSet(s) = {s[i] : i \in 1..k}
      BY <2>6 DEF ToSet
    <2>8. {queue.data[n] : n \in ToSet(s)} = {queue.data[s[i]] : i \in 1..k}
      BY <2>7
    <2>9. queue.live = ToSet(s) \cup {queue.data[n] : n \in ToSet(s)} \cup H
      BY <2>5, <2>7, <2>8
    <2>10. Cardinality(queue.live) = 2 * Len(s) + Cardinality(H)
      BY <2>2, <2>3, <2>6, LiveIs
    <2>11. queue.head = IF s = <<>> THEN None ELSE Last(s)
      <3>1. CASE k = 0
        <4>1. s = <<>>
          BY <2>6, <3>1
        <4> QED
          BY <2>2, <3>1, <4>1 DEF Owned, Row
      <3>2. CASE k # 0
        <4>1. s # <<>> /\ Last(s) = s[k]
          BY <2>6, <3>2 DEF Last
        <4>2. queue.head = s[k]
          BY <2>2, <2>5, <3>2 DEF Owned, Row
        <4> QED
          BY <4>1, <4>2
      <3> QED
        BY <3>1, <3>2
    <2> HIDE DEF H
    <2>12. /\ ~queue.bad
           /\ queue.live = ToSet(QueueNodes) \cup {queue.data[n] : n \in ToSet(QueueNodes)} \cup H
           /\ Cardinality(queue.live) = 2 * Len(QueueNodes) + Cardinality(H)
           /\ queue.head = (IF QueueNodes = <<>> THEN None ELSE Last(QueueNodes))
           /\ \A d \in H : queue.value[d] = held[d]
      BY <2>3, <2>4, <2>5, <2>9, <2>10, <2>11
    <2> QED
      BY <2>12 DEF QueueOwned, H
  <1> QED
    BY <1>1, QueueInvAlways, PTL

-----------------------------------------------------------------------------
(* The sequences the containers are.                                       *)

(* The items of a list, as the properties read them.                       *)
ListNodesOf(l) == L!Chain(l.next, l.head, l.length)
ListItemsOf(l) == [i \in DOMAIN ListNodesOf(l) |-> l.data[ListNodesOf(l)[i]]]

(* They are the sequence of the invariant.                                 *)
LEMMA ListItemsOfIs ==
  ASSUME NEW l, NEW f, Lists(l, f)
  PROVE  ListItemsOf(l) = f
  <1>1. PICK s : LP!Ordered(l, s) /\ f = ListItems(l, s)
    BY DEF Lists
  <1>2. l \in LP!List /\ None \notin Nodes
    BY ContainersAssumption DEF Lists
  <1>3. ListNodesOf(l) = s
    BY <1>1, <1>2, LP!ChainIs, SameLists DEF ListNodesOf
  <1>4. DOMAIN s = 1..l.length
    BY <1>1, <1>2, OrderedIs
  <1> QED
    BY <1>1, <1>3, <1>4 DEF ListItemsOf, ListItems

(* The variables of Sequence, as it reads them.                            *)
Seen(f, g) == ListItemsOf(list) = f /\ ItemsOf(queue, DOMAIN held) = g
SeenNext(f, g) == ListItemsOf(list') = f /\ ItemsOf(queue', DOMAIN held') = g

(* The actions of Sequence, by the sequences before and after.             *)
LEMMA SequenceInit ==
  ASSUME Seen(<<>>, <<>>), ret = None PROVE S!Init
  BY DEF Seen, S!Init, ListItemsOf, ListNodesOf, ListNodes, ItemsOf, NodesOf, QueueNodes

LEMMA SequencePush ==
  ASSUME NEW f, NEW g, Seen(f, g), NEW x, ret' = ret,
         SeenNext(<<x>> \o f, g) \/ SeenNext(Append(f, x), g)
  PROVE  S!Push(x)
  BY DEF Seen, SeenNext, S!Push, ListItemsOf, ListNodesOf, ListNodes, ItemsOf, NodesOf, QueueNodes

LEMMA SequencePop ==
  ASSUME NEW f, NEW g, Seen(f, g), f # <<>>,
         \/ SeenNext(Tail(f), g) /\ ret' = Head(f)
         \/ SeenNext(Front(f), g) /\ ret' = Last(f)
  PROVE  S!Pop
  BY DEF Seen, SeenNext, S!Pop, S!Front, Front, S!Last, Last,
         ListItemsOf, ListNodesOf, ListNodes, ItemsOf, NodesOf, QueueNodes

LEMMA SequenceToFront ==
  ASSUME NEW f, NEW g, Seen(f, g), NEW j \in DOMAIN f, ret' = ret,
         SeenNext(<<f[j]>> \o RemoveAt(f, j), g)
  PROVE  S!Next
  <1>1. S!ToFront(j)
    BY DEF Seen, SeenNext, S!ToFront, S!RemoveAt, RemoveAt,
           ListItemsOf, ListNodesOf, ListNodes, ItemsOf, NodesOf, QueueNodes
  <1>2. j \in DOMAIN [i \in DOMAIN ListNodes |-> list.data[ListNodes[i]]]
    BY DEF Seen, ListItemsOf, ListNodesOf, ListNodes
  <1> QED
    BY <1>1, <1>2 DEF S!Next

LEMMA SequenceEnqueue ==
  ASSUME NEW f, NEW g, Seen(f, g), NEW x, ret' = ret, SeenNext(f, Append(g, x))
  PROVE  S!Enqueue(x)
  BY DEF Seen, SeenNext, S!Enqueue, ListItemsOf, ListNodesOf, ListNodes, ItemsOf, NodesOf, QueueNodes

LEMMA SequenceDequeue ==
  ASSUME NEW f, NEW g, Seen(f, g), g # <<>>, SeenNext(f, Tail(g)), ret' = Head(g)
  PROVE  S!Dequeue
  BY DEF Seen, SeenNext, S!Dequeue, ListItemsOf, ListNodesOf, ListNodes, ItemsOf, NodesOf, QueueNodes

LEMMA SequenceClear ==
  ASSUME NEW f, NEW g, Seen(f, g), SeenNext(f, <<>>), ret' = ret
  PROVE  S!Clear
  BY DEF Seen, SeenNext, S!Clear, ListItemsOf, ListNodesOf, ListNodes, ItemsOf, NodesOf, QueueNodes

LEMMA SequenceStutter ==
  ASSUME NEW f, NEW g, Seen(f, g), SeenNext(f, g), ret' = ret
  PROVE  UNCHANGED S!vars
  BY DEF Seen, SeenNext, S!vars, ListItemsOf, ListNodesOf, ListNodes, ItemsOf, NodesOf, QueueNodes

(* Sequence sees the sequences of the invariants.                          *)
LEMMA SeenIs ==
  ASSUME NEW f, NEW g
  PROVE  /\ Lists(list, f) /\ QueueIs(queue, held, g) => Seen(f, g)
         /\ Lists(list', f) /\ QueueIs(queue', held', g) => SeenNext(f, g)
  <1>1. ASSUME Lists(list, f), QueueIs(queue, held, g) PROVE Seen(f, g)
    BY <1>1, ListItemsOfIs, ItemsOfIs DEF Seen, QueueIs
  <1>2. ASSUME Lists(list', f), QueueIs(queue', held', g) PROVE SeenNext(f, g)
    BY <1>2, ListItemsOfIs, ItemsOfIs DEF SeenNext, QueueIs
  <1> QED
    BY <1>1, <1>2

(* Every step of the containers is one of the sequences, or none.          *)
LEMMA SequenceStep ==
  ASSUME NEW f, NEW g, Lists(list, f), QueueIs(queue, held, g), [Next]_vars
  PROVE  [S!Next]_(S!vars)
  <1>1. Seen(f, g)
    BY SeenIs
  <1>2. ASSUME NEW x \in Items, Push(x) PROVE S!Next
    <2>1. QueueIs(queue', held', g) /\ ret' = ret
      BY <1>2 DEF Push
    <2>2. Lists(list', <<x>> \o f) \/ Lists(list', Append(f, x))
      BY <1>2, PushStep
    <2>3. SeenNext(<<x>> \o f, g) \/ SeenNext(Append(f, x), g)
      BY <2>1, <2>2, SeenIs
    <2>4. S!Push(x)
      BY <1>1, <2>1, <2>3, SequencePush
    <2> QED
      BY <2>4 DEF S!Next
  <1>3. CASE Pop
    <2>1. QueueIs(queue', held', g)
      BY <1>3 DEF Pop
    <2>2. \/ Lists(list', Tail(f)) /\ ret' = Head(f) /\ f # <<>>
          \/ Lists(list', Front(f)) /\ ret' = Last(f) /\ f # <<>>
      BY <1>3, PopStep
    <2>3. \/ SeenNext(Tail(f), g) /\ ret' = Head(f)
          \/ SeenNext(Front(f), g) /\ ret' = Last(f)
      BY <2>1, <2>2, SeenIs
    <2>4. S!Pop
      BY <1>1, <2>2, <2>3, SequencePop
    <2> QED
      BY <2>4 DEF S!Next
  <1>4. ASSUME NEW n \in Nodes, Move(n) PROVE [S!Next]_(S!vars)
    <2>1. QueueIs(queue', held', g) /\ ret' = ret
      BY <1>4 DEF Move
    <2>2. CASE Lists(list', f)
      <3>1. SeenNext(f, g)
        BY <2>1, <2>2, SeenIs
      <3> QED
        BY <1>1, <2>1, <3>1, SequenceStutter
    <2>3. ASSUME NEW j \in DOMAIN f, Lists(list', <<f[j]>> \o RemoveAt(f, j))
          PROVE  S!Next
      <3>1. SeenNext(<<f[j]>> \o RemoveAt(f, j), g)
        BY <2>1, <2>3, SeenIs
      <3> QED
        BY <1>1, <2>1, <3>1, SequenceToFront
    <2> QED
      BY <1>4, <2>2, <2>3, MoveStep
  <1>5. ASSUME NEW x \in Items, Enqueue(x) PROVE S!Next
    <2>1. QueueIs(queue', held', Append(g, x))
      BY <1>5, EnqueueStep
    <2>2. Lists(list', f) /\ ret' = ret
      BY <1>5 DEF Enqueue
    <2>3. S!Enqueue(x)
      BY <1>1, <2>1, <2>2, SeenIs, SequenceEnqueue
    <2> QED
      BY <2>3 DEF S!Next
  <1>6. CASE Dequeue
    <2>1. QueueIs(queue', held', Tail(g)) /\ g # <<>> /\ ret' = Head(g)
      BY <1>6, DequeueStep
    <2>2. Lists(list', f)
      BY <1>6 DEF Dequeue
    <2>3. S!Dequeue
      BY <1>1, <2>1, <2>2, SeenIs, SequenceDequeue
    <2> QED
      BY <2>3 DEF S!Next
  <1>7. CASE Clear
    <2>1. QueueIs(queue', held', <<>>)
      BY <1>7, ClearStep
    <2>2. Lists(list', f) /\ ret' = ret
      BY <1>7 DEF Clear
    <2>3. S!Clear
      BY <1>1, <2>1, <2>2, SeenIs, SequenceClear
    <2> QED
      BY <2>3 DEF S!Next
  <1>8. ASSUME NEW d \in DOMAIN held, Release(d) PROVE UNCHANGED S!vars
    <2>1. QueueIs(queue', held', g)
      BY <1>8, ReleaseStep
    <2>2. Lists(list', f) /\ ret' = ret
      BY <1>8 DEF Release
    <2> QED
      BY <1>1, <2>1, <2>2, SeenIs, SequenceStutter
  <1>9. CASE UNCHANGED lists
    <2>1. QueueIs(queue', held', g) /\ Lists(list', f) /\ ret' = ret
      BY <1>9 DEF lists
    <2>2. UNCHANGED S!vars
      BY <1>1, <2>1, SeenIs, SequenceStutter
    <2> QED
      BY <2>2
  <1>10. Next => \/ \E x \in Items : Push(x) \/ Enqueue(x)
                 \/ \E n \in Nodes : Move(n)
                 \/ Pop \/ Dequeue \/ Clear
                 \/ \E d \in DOMAIN held : Release(d)
                 \/ UNCHANGED lists
    BY DEF Next, PoolAlloc, PoolFree, BumpAlloc, BumpReset
  <1>11. UNCHANGED vars => UNCHANGED lists
    BY DEF vars
  <1> QED
    BY <1>2, <1>3, <1>4, <1>5, <1>6, <1>7, <1>8, <1>9, <1>10, <1>11

(* The containers implement Sequence: whatever is called, the list is the  *)
(* sequence of the items pushed at either end, popped from either end and  *)
(* moved to the front, the queue hands out the items in the order they     *)
(* were put in, and what is handed out is what the sequence had there      *)
(* (ImplementsSequence), for any number of nodes, cells and items.         *)
THEOREM ContainersImplementSequence == Spec => ImplementsSequence
  <1>1. Init => S!Init
    <2> SUFFICES ASSUME Init PROVE S!Init
      OBVIOUS
    <2>1. QueueIs(queue, held, <<>>) /\ ret = None
      BY QueueStarts DEF Init
    <2>2. Lists(list, <<>>)
      BY ListStarts
    <2> QED
      BY <2>1, <2>2, SeenIs, SequenceInit
  <1>2. ListInv /\ QueueInv /\ [Next]_vars => [S!Next]_(S!vars)
    <2> SUFFICES ASSUME ListInv, QueueInv, [Next]_vars PROVE [S!Next]_(S!vars)
      OBVIOUS
    <2>1. PICK f : Lists(list, f)
      BY DEF ListInv
    <2>2. PICK g : QueueIs(queue, held, g)
      BY DEF QueueInv
    <2> QED
      BY <2>1, <2>2, SequenceStep
  <1> QED
    BY <1>1, <1>2, ListInvAlways, QueueInvAlways, PTL DEF Spec, ImplementsSequence, S!Spec

=============================================================================
