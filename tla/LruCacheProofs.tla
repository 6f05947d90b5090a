---------------------------- MODULE LruCacheProofs ----------------------------
(***************************************************************************)
(* The cache of LRU_cache.c implements FileCache, for any capacity, keys,  *)
(* addresses and hash function, although move_to_front leaves the tail     *)
(* where it is.                                                            *)
(***************************************************************************)
EXTENDS LruCache, FiniteSetTheorems, SequenceTheorems, TLAPS

LP == INSTANCE LinkedListProofs WITH Labels <- Keys

\* The lemmas on tables that are cited do not mention the variables.
HP == INSTANCE HashMapProofs WITH Vals <- Nodes, Size <- MapSlots,
        entries <- hmap, fresh <- hmap, turn <- 0, ret <- None

LEMMA TablesAssumed == HP!HashTableAssumption
  BY LruCacheAssumption DEF HP!HashTableAssumption

(* The operations as LruCache and as the lemmas name them.                 *)
LEMMA SameLists ==
  /\ L!Created = LP!Created
  /\ \A l, n, d : L!PushFront(l, n, d) = LP!PushFront(l, n, d)
  /\ \A l : L!PopTail(l) = LP!PopTail(l)
  /\ \A l, n : L!MoveToFront(l, n) = LP!MoveToFront(l, n)
  BY DEF L!Created, LP!Created, L!PushFront, LP!PushFront, L!PopTail, LP!PopTail,
         L!MoveToFront, LP!MoveToFront, L!Touch, LP!Touch, L!With, LP!With,
         L!Field, LP!Field, L!Free, LP!Free

LEMMA SameTables ==
  /\ H!Created = HP!Created
  /\ \A h : H!Used(h) = HP!Used(h)
  /\ \A h, k : /\ H!Has(h, k) <=> HP!Has(h, k)
               /\ H!GetIn(h, k) = HP!GetIn(h, k)
               /\ H!DeleteIn(h, k) = HP!DeleteIn(h, k)
  /\ \A h, k, v : H!SetIn(h, k, v) = HP!SetIn(h, k, v)
  <1>1. H!Created = HP!Created
    BY DEF H!Created, HP!Created, H!Zeroed, HP!Zeroed, H!Slots, HP!Slots
  <1>2. \A h : H!Used(h) = HP!Used(h)
    BY DEF H!Used, HP!Used, H!Blank, HP!Blank, H!Slots, HP!Slots
  <1>3. \A h, k, i : /\ H!FindsAt(h, k, i) <=> HP!FindsAt(h, k, i)
                     /\ H!BlankAt(h, k, i) <=> HP!BlankAt(h, k, i)
    BY DEF H!FindsAt, HP!FindsAt, H!BlankAt, HP!BlankAt, H!Reaches, HP!Reaches,
           H!Slot, HP!Slot, H!Blank, HP!Blank, H!Holds, HP!Holds
  <1>4. \A h, k : H!GetIn(h, k) = HP!GetIn(h, k)
    BY DEF H!GetIn, HP!GetIn, H!Has, HP!Has, H!FindsAt, HP!FindsAt, H!Slots, HP!Slots,
           H!Reaches, HP!Reaches, H!Slot, HP!Slot, H!Blank, HP!Blank, H!Holds, HP!Holds
  <1>5. \A h, k : H!DeleteIn(h, k) = HP!DeleteIn(h, k)
    BY DEF H!DeleteIn, HP!DeleteIn, H!Has, HP!Has, H!FindsAt, HP!FindsAt, H!Slots, HP!Slots,
           H!Reaches, HP!Reaches, H!Slot, HP!Slot, H!Blank, HP!Blank, H!Holds, HP!Holds,
           H!Tombstone, HP!Tombstone, H!Zeroed, HP!Zeroed
  <1>6. \A h, k, v : H!SetIn(h, k, v) = HP!SetIn(h, k, v)
    BY DEF H!SetIn, HP!SetIn, H!Room, HP!Room, H!FindsAt, HP!FindsAt, H!Slots, HP!Slots,
           H!BlankAt, HP!BlankAt, H!Filled, HP!Filled,
           H!Reaches, HP!Reaches, H!Slot, HP!Slot, H!Blank, HP!Blank, H!Holds, HP!Holds
  <1>7. \A h, k : H!Has(h, k) <=> HP!Has(h, k)
    BY <1>3 DEF H!Has, HP!Has, H!Slots, HP!Slots
  <1> QED
    BY <1>1, <1>2, <1>4, <1>5, <1>6, <1>7

-----------------------------------------------------------------------------
(* The inductive invariant.  What the list is made of is counted whatever  *)
(* happened; how it is linked is known until a freed node is touched, and  *)
(* no pointer dangles until a tail hit and an eviction have both happened. *)

Counted(l) ==
  /\ l \in LP!List
  /\ IsFiniteSet(l.live) /\ l.length = Cardinality(l.live)
  /\ \A n \in Nodes : l.data[n] # None <=> n \in l.live

\* What LRU_cache_get finds is a node of the list with the key.
Finds(h, l) ==
  \A k \in Keys : HP!GetIn(h, k) # None => HP!GetIn(h, k) \in l.live /\ l.data[HP!GetIn(h, k)] = k

CInv ==
  /\ Counted(dll) /\ dll.length <= Cap
  /\ HP!GoodTable(hmap) /\ Finds(hmap, dll)
  /\ tailHit \in BOOLEAN /\ churned \in BOOLEAN
  /\ ~dll.bad => LP!Shape(dll)
  /\ ~tailHit \/ ~churned => ~dll.bad /\ LP!Closed(dll)
  /\ ~tailHit => LP!Ends(dll)

LEMMA InitCInv == Init => CInv
  <1> SUFFICES ASSUME Init PROVE CInv
    OBVIOUS
  <1>1. hmap = HP!Created /\ dll = LP!Created /\ tailHit = FALSE /\ churned = FALSE
    BY SameLists, SameTables DEF Init
  <1>2. HP!GoodTable(hmap) /\ \A k \in Keys : HP!GetIn(hmap, k) = None
    BY <1>1, TablesAssumed, HP!CreatedGood, HP!CreatedEmpty
  <1>3. /\ dll \in LP!List /\ LP!Shape(dll) /\ LP!Closed(dll) /\ LP!Ends(dll)
        /\ dll.live = {} /\ dll.length = 0 /\ dll.bad = FALSE
        /\ dll.data = [n \in Nodes |-> None]
    BY <1>1, LP!CreatedShape
  <1>4. IsFiniteSet({}) /\ Cardinality({}) = 0
    BY FS_EmptySet
  <1>5. Counted(dll) /\ dll.length <= Cap
    BY <1>3, <1>4, LruCacheAssumption DEF Counted
  <1> QED
    BY <1>1, <1>2, <1>3, <1>5 DEF CInv, Finds

-----------------------------------------------------------------------------
(* LRU_cache_get.                                                          *)

(* It moves the node it finds.                                             *)
LEMMA GetMoves ==
  ASSUME CInv, NEW k \in Keys, Get(k)
  PROVE  \E n \in dll.live :
           /\ HP!GetIn(hmap, k) = n
           /\ dll' = IF n = dll.head THEN dll ELSE LP!MoveToFront(dll, n)
           /\ hmap' = hmap /\ churned' = churned
           /\ tailHit' = (tailHit \/ (n = dll.tail /\ n # dll.head))
  <1> DEFINE n == HP!GetIn(hmap, k)
  <1>1. HP!Has(hmap, k) /\ H!GetIn(hmap, k) = n
    BY SameTables DEF Get
  <1>2. n \in Nodes /\ n # None
    BY <1>1, TablesAssumed, HP!GetIs DEF CInv
  <1>3. n \in dll.live
    BY <1>2 DEF CInv, Finds
  <1> HIDE DEF n
  <1>4. L!Touch(dll, {n}) = dll
    <2>1. dll \in LP!List
      BY DEF CInv, Counted
    <2>2. (dll.bad \/ ~({n} \subseteq dll.live)) = dll.bad
      BY <1>3, <2>1 DEF LP!List
    <2> QED
      BY <2>1, <2>2 DEF L!Touch, LP!List
  <1>5. dll' = LP!MoveToFront(dll, n)
    BY <1>1, <1>4, SameLists DEF Get
  <1>6. n = dll.head => LP!MoveToFront(dll, n) = dll
    BY DEF LP!MoveToFront
  <1>7. /\ hmap' = hmap /\ churned' = churned
        /\ tailHit' = (tailHit \/ (n = dll.tail /\ n # dll.head))
    BY <1>1 DEF Get
  <1> QED
    BY <1>3, <1>5, <1>6, <1>7 DEF n

(* What a hit leaves: the entries are the same, and unless a pointer       *)
(* dangled no freed node is touched.                                       *)
LEMMA GetKeeps ==
  ASSUME CInv, ~dll.bad, NEW k \in Keys, Get(k)
  PROVE  /\ CInv'
         /\ HP!GetIn(hmap, k) # None
         /\ dll'.data = dll.data /\ dll'.live = dll.live
         /\ dll'.bad => tailHit /\ churned
  <1>1. PICK n \in dll.live :
           /\ HP!GetIn(hmap, k) = n
           /\ dll' = IF n = dll.head THEN dll ELSE LP!MoveToFront(dll, n)
           /\ hmap' = hmap /\ churned' = churned
           /\ tailHit' = (tailHit \/ (n = dll.tail /\ n # dll.head))
    BY GetMoves
  <1>2. /\ dll \in LP!List /\ dll.live \subseteq Nodes /\ None \notin Nodes
        /\ dll.bad = FALSE /\ LP!Shape(dll)
    BY LruCacheAssumption DEF CInv, Counted, LP!List
  <1>3. tailHit' \in BOOLEAN /\ churned' \in BOOLEAN
    BY <1>1 DEF CInv
  <1>4. CASE n = dll.head
    <2>1. dll' = dll /\ tailHit' = tailHit
      BY <1>1, <1>4 DEF CInv
    <2> QED
      BY <1>1, <1>2, <2>1 DEF CInv, Counted, Finds
  <1>5. CASE n # dll.head
    <2>1. dll.head \in dll.live /\ dll' = LP!MoveToFront(dll, n)
      BY <1>1, <1>2, <1>5 DEF LP!Shape, LP!Joined
    <2>2. /\ dll' \in LP!List /\ dll'.live = dll.live /\ dll'.data = dll.data
          /\ dll'.length = dll.length
      BY <1>2, <1>5, <2>1, LP!MoveToFrontFields
    <2>3. Counted(dll') /\ dll'.length <= Cap /\ HP!GoodTable(hmap') /\ Finds(hmap', dll')
      BY <1>1, <2>2 DEF CInv, Counted, Finds
    <2>4. CASE dll.prev[n] \in dll.live /\ dll.next[n] \in dll.live \cup {None}
      <3>1. /\ LP!Shape(dll') /\ dll'.bad = FALSE
            /\ LP!Closed(dll) => LP!Closed(dll')
            /\ LP!Ends(dll) /\ n # dll.tail => LP!Ends(dll')
        BY <1>2, <1>5, <2>1, <2>4, LP!MoveShape
      <3>2. ~tailHit' \/ ~churned' => ~tailHit \/ ~churned
        BY <1>1
      <3>3. ~tailHit' => ~tailHit /\ n # dll.tail
        BY <1>1, <1>5
      <3> QED
        BY <1>1, <1>2, <1>3, <2>2, <2>3, <3>1, <3>2, <3>3 DEF CInv
    <2>5. CASE ~(dll.prev[n] \in dll.live /\ dll.next[n] \in dll.live \cup {None})
      <3>1. tailHit /\ churned
        BY <1>5, <2>5 DEF CInv, LP!Closed
      <3>2. dll'.bad = (dll.bad \/ ~({n, dll.prev[n], dll.head}
                                      \cup ({dll.next[n]} \ {None}) \subseteq dll.live))
        BY <1>2, <1>5, <2>1, LP!MoveToFrontFields
      <3>3. dll'.bad
        BY <2>5, <3>2
      <3>4. tailHit' /\ churned'
        BY <1>1, <3>1
      <3> QED
        BY <1>1, <1>2, <1>3, <2>2, <2>3, <3>1, <3>3, <3>4 DEF CInv
    <2> QED
      BY <2>4, <2>5
  <1> QED
    BY <1>4, <1>5

-----------------------------------------------------------------------------
(* LRU_cache_add.                                                          *)

(* The list l once the new node n is pushed.                               *)
IsPushed(l, k, n) ==
  /\ n \in Nodes \ dll.live
  /\ Counted(l) /\ l.length = dll.length + 1 /\ l.live = dll.live \cup {n}
  /\ l.head = n /\ l.bad = FALSE /\ LP!Shape(l)
  /\ LP!Closed(dll) => LP!Closed(l)
  /\ LP!Ends(dll) => LP!Ends(l)
  /\ \A m \in Nodes : l.data[m] = IF m = n THEN k ELSE dll.data[m]
  /\ dll.live # {} =>
       /\ l.tail = dll.tail /\ dll.tail \in dll.live
       /\ l.prev[l.tail] \in l.live /\ l.next[l.prev[l.tail]] = l.tail

LEMMA PushedIs ==
  ASSUME CInv, ~dll.bad, NEW k \in Keys, NEW n \in Fresh, NEW l, l = Pushed(k, n)
  PROVE  IsPushed(l, k, n)
  <1>1. /\ dll \in LP!List /\ None \notin Nodes /\ None \notin Keys
        /\ dll.bad = FALSE /\ LP!Shape(dll) /\ Counted(dll)
    BY LruCacheAssumption DEF CInv, Counted, LP!List
  <1>2. n \in Nodes \ dll.live /\ LP!Unseen(dll, n)
    BY DEF Fresh, LP!Unseen
  <1>3. l = LP!PushFront(dll, n, k)
    BY SameLists DEF Pushed
  <1>4. /\ l \in LP!List
        /\ l.live = dll.live \cup {n}
        /\ l.head = n /\ l.tail = (IF dll.head = None THEN n ELSE dll.tail)
        /\ l.length = dll.length + 1
        /\ \A m \in Nodes : l.data[m] = IF m = n THEN k ELSE dll.data[m]
    BY <1>1, <1>2, <1>3, LP!PushFrontFields
  <1>5. /\ LP!Shape(l) /\ l.bad = dll.bad
        /\ LP!Closed(dll) => LP!Closed(l)
        /\ LP!Ends(dll) => LP!Ends(l)
        /\ dll.live # {} => l.prev[l.tail] \in l.live /\ l.next[l.prev[l.tail]] = l.tail
    BY <1>1, <1>2, <1>3, LP!PushShape
  <1>6. dll.live # {} => dll.head \in dll.live /\ dll.tail \in dll.live /\ dll.head # None
    BY <1>1 DEF LP!Shape, LP!Joined, LP!List
  <1>7. Counted(l)
    <2>1. IsFiniteSet(l.live) /\ Cardinality(l.live) = Cardinality(dll.live) + 1
      <3> DEFINE S == dll.live
      <3>1. IsFiniteSet(S) /\ n \notin S
        BY <1>1, <1>2 DEF Counted
      <3> HIDE DEF S
      <3>2. IsFiniteSet(S \cup {n}) /\ Cardinality(S \cup {n}) = Cardinality(S) + 1
        BY <3>1, FS_AddElement
      <3> QED
        BY <3>2, <1>4 DEF S
    <2>2. l.length = Cardinality(l.live)
      BY <1>1, <1>4, <2>1 DEF Counted
    <2>3. \A m \in Nodes : l.data[m] # None <=> m \in l.live
      BY <1>1, <1>2, <1>4 DEF Counted
    <2> QED
      BY <1>4, <2>1, <2>2, <2>3 DEF Counted
  <1> QED
    BY <1>1, <1>2, <1>4, <1>5, <1>6, <1>7 DEF IsPushed

(* The list r once the tail of l, which has one node too many, is popped.  *)
IsEvicted(r, l, k, n) ==
  /\ dll.length = Cap /\ dll.tail \in dll.live /\ l.tail = dll.tail /\ n # dll.tail
  /\ Counted(r) /\ r.length = Cap /\ r.live = (dll.live \cup {n}) \ {dll.tail}
  /\ r.bad = FALSE /\ LP!Shape(r)
  /\ LP!Closed(dll) /\ LP!Ends(dll) => LP!Closed(r) /\ LP!Ends(r)
  /\ \A m \in Nodes : r.data[m] = IF m = n THEN k ELSE IF m = dll.tail THEN None
                                  ELSE dll.data[m]

LEMMA EvictedIs ==
  ASSUME CInv, ~dll.bad, NEW k \in Keys, NEW n \in Fresh, NEW l, l = Pushed(k, n), Full(l),
         NEW r, r = Evicted(l)
  PROVE  IsEvicted(r, l, k, n)
  <1>1. /\ n \in Nodes \ dll.live
        /\ Counted(l) /\ l.length = dll.length + 1 /\ l.live = dll.live \cup {n}
        /\ l.head = n /\ l.bad = FALSE /\ LP!Shape(l)
        /\ LP!Closed(dll) => LP!Closed(l)
        /\ LP!Ends(dll) => LP!Ends(l)
        /\ \A m \in Nodes : l.data[m] = IF m = n THEN k ELSE dll.data[m]
        /\ dll.live # {} =>
             /\ l.tail = dll.tail /\ dll.tail \in dll.live
             /\ l.prev[l.tail] \in l.live /\ l.next[l.prev[l.tail]] = l.tail
    <2>1. IsPushed(l, k, n)
      BY PushedIs
    <2> QED
      BY <2>1 DEF IsPushed
  <1>2. dll.length \in Int /\ dll.length <= Cap /\ Cap \in Nat \ {0}
    BY LruCacheAssumption DEF CInv, Counted, LP!List
  <1>3. dll.length = Cap /\ l.length > 1
    BY <1>1, <1>2 DEF Full
  <1>4. dll.live # {}
    BY <1>2, <1>3, FS_EmptySet DEF CInv, Counted
  <1>5. /\ l.tail = dll.tail /\ dll.tail \in dll.live /\ n # dll.tail
        /\ l.prev[l.tail] \in l.live /\ l.next[l.prev[l.tail]] = l.tail
    BY <1>1, <1>4
  <1>6. r = LP!PopTail(l) /\ l \in LP!List /\ None \notin Nodes
    BY <1>1, SameLists, LruCacheAssumption DEF Evicted, Counted
  <1>7. /\ r \in LP!List
        /\ r.live = l.live \ {l.tail} /\ r.length = l.length - 1
        /\ \A m \in Nodes : r.data[m] = IF m = l.tail THEN None ELSE l.data[m]
    BY <1>1, <1>3, <1>5, <1>6, LP!PopTailFields
  <1>8. /\ LP!Shape(r) /\ r.bad = l.bad
        /\ LP!Closed(l) /\ LP!Ends(l) => LP!Closed(r) /\ LP!Ends(r)
    BY <1>1, <1>3, <1>5, <1>6, LP!PopShape
  <1>9. \A m \in Nodes : r.data[m] = IF m = n THEN k ELSE IF m = dll.tail THEN None
                                     ELSE dll.data[m]
    BY <1>1, <1>5, <1>7
  <1>10. Counted(r)
    <2>1. l.tail \in l.live /\ IsFiniteSet(l.live) /\ Cardinality(l.live) = l.length
      BY <1>1, <1>5 DEF Counted
    <2>2. IsFiniteSet(r.live) /\ Cardinality(r.live) = l.length - 1
      <3> DEFINE S == l.live  x == l.tail
      <3>1. x \in S /\ IsFiniteSet(S) /\ Cardinality(S) = l.length
        BY <2>1
      <3> HIDE DEF S, x
      <3>2. IsFiniteSet(S \ {x}) /\ Cardinality(S \ {x}) = Cardinality(S) - 1
        BY <3>1, FS_RemoveElement
      <3> QED
        BY <3>1, <3>2, <1>7 DEF S, x
    <2>3. \A m \in Nodes : r.data[m] # None <=> m \in r.live
      BY <1>1, <1>5, <1>7 DEF Counted
    <2> QED
      BY <1>7, <2>2, <2>3 DEF Counted
  <1>11. r.length = Cap
    BY <1>1, <1>2, <1>3, <1>7
  <1> QED
    BY <1>1, <1>3, <1>5, <1>7, <1>8, <1>9, <1>10, <1>11 DEF IsEvicted

LEMMA SameCounts == \A X : HP!Cardinality(X) = Cardinality(X)
  BY DEF HP!Cardinality, Cardinality

\* The room the table has taken.
UsedOf(h) == Cardinality(HP!Used(h))

(* hashmap_set of the new node, in a table g.                              *)
LEMMA SetIs ==
  ASSUME NEW g, HP!GoodTable(g), NEW k \in Keys, NEW n \in Nodes, NEW h, h = HP!SetIn(g, k, n)
  PROVE  /\ HP!GoodTable(h)
         /\ IF HP!GetIn(g, k) = None /\ UsedOf(g) = MapSlots
              THEN h = g
              ELSE /\ \A m \in Keys : HP!GetIn(h, m) = IF m = k THEN n ELSE HP!GetIn(g, m)
                   /\ UsedOf(h) = IF HP!GetIn(g, k) = None THEN UsedOf(g) + 1 ELSE UsedOf(g)
         /\ \A m \in Keys : HP!GetIn(h, m) \in {HP!GetIn(g, m)} \cup (IF m = k THEN {n} ELSE {})
  <1>1. HP!GoodTable(h)
    BY TablesAssumed, HP!SetGood
  <1>2. HP!Room(g, k) <=> ~(HP!GetIn(g, k) = None /\ UsedOf(g) = MapSlots)
    <2>1. UsedOf(g) \in 0..MapSlots
      BY TablesAssumed, HP!UsedCount, SameCounts DEF UsedOf
    <2>2. HP!Room(g, k) <=> HP!GetIn(g, k) # None \/ UsedOf(g) < MapSlots
      BY TablesAssumed, HP!RoomIs, SameCounts DEF UsedOf
    <2> QED
      BY <2>1, <2>2, LruCacheAssumption
  <1>3. CASE HP!Room(g, k)
    <2>1. \A m \in Keys : HP!GetIn(h, m) = IF m = k THEN n ELSE HP!GetIn(g, m)
      BY <1>3, TablesAssumed, HP!SetMaps
    <2>2. UsedOf(h) = IF HP!GetIn(g, k) = None THEN UsedOf(g) + 1 ELSE UsedOf(g)
      BY <1>3, TablesAssumed, HP!SetUses, SameCounts DEF UsedOf
    <2> QED
      BY <1>1, <1>2, <1>3, <2>1, <2>2
  <1>4. CASE ~HP!Room(g, k)
    <2>1. h = g
      BY <1>4 DEF HP!SetIn
    <2> QED
      BY <1>1, <1>2, <1>4, <2>1
  <1> QED
    BY <1>3, <1>4

(* hashmap_delete of the victim's key.                                     *)
LEMMA DeleteIs ==
  ASSUME NEW g, HP!GoodTable(g), NEW k \in Keys, NEW h, h = HP!DeleteIn(g, k)
  PROVE  /\ HP!GoodTable(h) /\ UsedOf(h) = UsedOf(g)
         /\ \A m \in Keys : HP!GetIn(h, m) = IF m = k THEN None ELSE HP!GetIn(g, m)
  BY TablesAssumed, HP!DeleteGood, HP!DeleteMaps DEF UsedOf

(* LRU_cache_add touches no freed node, whatever was hit before, and the   *)
(* table finds nodes of the list only.                                     *)
LEMMA AddKeeps ==
  ASSUME CInv, ~dll.bad, NEW k \in Keys, NEW n \in Nodes, Add(k, n)
  PROVE  CInv' /\ dll'.bad = FALSE
  <1> DEFINE l == Pushed(k, n)
  <1>1. n \in Fresh /\ tailHit' = tailHit
    BY DEF Add
  <1>2. IsPushed(l, k, n)
    BY <1>1, PushedIs
  <1>3. /\ HP!GoodTable(hmap) /\ Finds(hmap, dll) /\ None \notin Nodes
        /\ dll.live \subseteq Nodes
    BY LruCacheAssumption DEF CInv, Counted, LP!List
  <1>4. CASE ~Full(l)
    <2>1. dll' = l /\ hmap' = HP!SetIn(hmap, k, n) /\ churned' = churned
      BY <1>4, SameTables DEF Add
    <2> HIDE DEF l
    <2>2. Counted(dll') /\ dll'.length <= Cap
      <3>1. l.length \in Int /\ Cap \in Nat
        BY <1>2, LruCacheAssumption DEF IsPushed, Counted, LP!List
      <3> QED
        BY <1>2, <1>4, <2>1, <3>1 DEF IsPushed, Full
    <2>3. /\ HP!GoodTable(hmap')
          /\ \A m \in Keys : HP!GetIn(hmap', m) \in {HP!GetIn(hmap, m)} \cup (IF m = k THEN {n} ELSE {})
      BY <1>3, <2>1, SetIs
    <2>4. Finds(hmap', dll')
      BY <1>2, <1>3, <2>1, <2>3 DEF Finds, IsPushed
    <2> QED
      BY <1>1, <1>2, <2>1, <2>2, <2>3, <2>4 DEF CInv, IsPushed
  <1>5. CASE Full(l)
    <2> DEFINE r == Evicted(l)
               v == dll.data[dll.tail]
               g == HP!DeleteIn(hmap, v)
    <2>1. /\ dll.length = Cap /\ dll.tail \in dll.live /\ l.tail = dll.tail /\ n # dll.tail
          /\ Counted(r) /\ r.length = Cap /\ r.live = (dll.live \cup {n}) \ {dll.tail}
          /\ r.bad = FALSE /\ LP!Shape(r)
          /\ LP!Closed(dll) /\ LP!Ends(dll) => LP!Closed(r) /\ LP!Ends(r)
          /\ \A m \in Nodes : r.data[m] = IF m = n THEN k ELSE IF m = dll.tail THEN None
                                          ELSE dll.data[m]
      <3>1. IsEvicted(r, l, k, n)
        BY <1>1, <1>5, EvictedIs
      <3> QED
        BY <3>1 DEF IsEvicted
    <2>2. v \in Keys
      BY <1>3, <2>1 DEF CInv, Counted, LP!List
    <2>3. Unmapped(l) = g
      <3>1. L!Field(l.data, l.tail) = v
        BY <1>2, <1>3, <2>1 DEF L!Field, IsPushed
      <3> QED
        BY <3>1, SameTables DEF Unmapped
    <2>4. dll' = r /\ hmap' = HP!SetIn(g, k, n) /\ churned' = TRUE
      BY <1>5, <2>3, SameTables DEF Add
    <2> HIDE DEF r, l
    <2>5. /\ HP!GoodTable(g)
          /\ \A m \in Keys : HP!GetIn(g, m) = IF m = v THEN None ELSE HP!GetIn(hmap, m)
      BY <1>3, <2>2, DeleteIs
    <2> HIDE DEF g
    <2>6. /\ HP!GoodTable(hmap')
          /\ \A m \in Keys : HP!GetIn(hmap', m) \in {HP!GetIn(g, m)} \cup (IF m = k THEN {n} ELSE {})
      BY <2>4, <2>5, SetIs
    <2>7. Finds(hmap', dll')
      <3> SUFFICES ASSUME NEW m \in Keys, HP!GetIn(hmap', m) # None
                   PROVE  /\ HP!GetIn(hmap', m) \in r.live
                          /\ r.data[HP!GetIn(hmap', m)] = m
        BY <2>4 DEF Finds
      <3>1. CASE HP!GetIn(hmap', m) = n /\ m = k
        BY <3>1, <2>1
      <3>2. CASE HP!GetIn(hmap', m) = HP!GetIn(g, m)
        <4> DEFINE x == HP!GetIn(hmap, m)
        <4>1. m # v /\ HP!GetIn(hmap', m) = x /\ x # None
          BY <3>2, <2>5
        <4>2. x \in dll.live /\ dll.data[x] = m
          BY <4>1, <1>3 DEF Finds
        <4>3. x # dll.tail /\ x # n /\ x \in Nodes
          BY <4>1, <4>2, <1>2, <1>3 DEF IsPushed
        <4> QED
          BY <4>1, <4>2, <4>3, <2>1
      <3> QED
        BY <2>6, <3>1, <3>2
    <2>8. Cap \in Nat
      BY LruCacheAssumption
    <2> QED
      BY <1>1, <2>1, <2>4, <2>6, <2>7, <2>8 DEF CInv
  <1> QED
    BY <1>4, <1>5

LEMMA NextCInv == CInv /\ [Next]_vars => CInv'
  <1> SUFFICES ASSUME CInv, [Next]_vars PROVE CInv'
    OBVIOUS
  <1>1. CASE UNCHANGED vars
    BY <1>1 DEF vars, CInv, Counted, Finds
  <1>2. ASSUME ~dll.bad, NEW k \in Keys, Get(k) PROVE CInv'
    BY <1>2, GetKeeps
  <1>3. ASSUME ~dll.bad, NEW k \in Keys, NEW n \in Nodes, Add(k, n) PROVE CInv'
    BY <1>3, AddKeeps
  <1> QED
    BY <1>1, <1>2, <1>3 DEF Next, Aborted

(* The tail of the list is not cut off: Shape has a set that leads from it *)
(* to the head.                                                            *)
LEMMA TailNotCutOff ==
  ASSUME dll \in LP!List, None \notin Nodes, LP!Shape(dll), dll.live # {}
  PROVE  dll.tail \notin CutOff(dll) \cup Stranded(dll)
  <1>1. PICK M : LP!Main(dll, M)
    BY DEF LP!Shape
  <1>2. /\ M \in SUBSET dll.live /\ dll.tail \in M
        /\ \A m \in M \ {dll.head} : dll.prev[m] \in M
        /\ dll.prev[dll.head] = None
    BY <1>1 DEF LP!Main, LP!Shape, LP!Joined
  <1>3. \A m \in M : dll.prev[m] \in M \cup {None}
    BY <1>2
  <1> QED
    BY <1>2, <1>3 DEF CutOff, Stranded

(* A hit frees nothing, and leads from a stranded entry nowhere else.      *)
LEMMA GetStrands ==
  ASSUME CInv, ~dll.bad, NEW k \in Keys, Get(k)
  PROVE  CutOff(dll) \subseteq dll'.live /\ (Stranded(dll) \subseteq Stranded(dll') \/ dll'.bad)
  <1>1. PICK n \in dll.live :
           dll' = IF n = dll.head THEN dll ELSE LP!MoveToFront(dll, n)
    BY GetMoves
  <1>2. /\ dll \in LP!List /\ dll.live \subseteq Nodes /\ None \notin Nodes
        /\ LP!Joined(dll)
    BY LruCacheAssumption DEF CInv, Counted, LP!List, LP!Shape
  <1>3. dll'.live = dll.live
    BY GetKeeps
  <1>4. CutOff(dll) \subseteq dll'.live
    BY <1>3 DEF CutOff
  <1>5. CASE n = dll.head
    BY <1>1, <1>4, <1>5
  <1>6. CASE n # dll.head
    <2>1. dll.head \in dll.live /\ dll.prev[dll.head] = None
      BY <1>1, <1>2 DEF LP!Joined
    <2>2. /\ dll'.bad = (dll.bad \/ ~({n, dll.prev[n], dll.head}
                                     \cup ({dll.next[n]} \ {None}) \subseteq dll.live))
          /\ \A m \in Nodes :
               dll'.prev[m] = IF m = n THEN None
                              ELSE IF m = dll.head THEN n
                              ELSE IF m = dll.next[n] THEN dll.prev[n] ELSE dll.prev[m]
      BY <1>1, <1>2, <1>6, <2>1, LP!MoveToFrontFields
    <2>3. ASSUME NEW m \in Stranded(dll), ~dll'.bad PROVE m \in Stranded(dll')
      <3>1. m \in dll.live /\ dll.prev[m] \in Nodes \ dll.live
        BY DEF Stranded
      <3>2. m # n
        BY <2>2, <2>3, <3>1
      <3>3. m # dll.head
        BY <1>2, <2>1, <3>1
      <3>4. m # dll.next[n]
        BY <1>1, <1>2, <3>1 DEF LP!Joined
      <3>5. dll'.prev[m] = dll.prev[m]
        BY <1>2, <2>2, <3>1, <3>2, <3>3, <3>4
      <3> QED
        BY <1>3, <3>1, <3>5 DEF Stranded
    <2> QED
      BY <1>4, <2>3
  <1> QED
    BY <1>5, <1>6

(* An eviction frees the tail; no pointer of the list leads to the node    *)
(* that is new.                                                            *)
LEMMA AddStrands ==
  ASSUME CInv, ~dll.bad, NEW k \in Keys, NEW n \in Nodes, Add(k, n)
  PROVE  CutOff(dll) \subseteq dll'.live /\ Stranded(dll) \subseteq Stranded(dll')
  <1> DEFINE l == Pushed(k, n)
  <1>1. n \in Fresh
    BY DEF Add
  <1>2. IsPushed(l, k, n)
    BY <1>1, PushedIs
  <1>3. /\ dll \in LP!List /\ None \notin Nodes /\ LP!Shape(dll) /\ LP!Joined(dll)
    BY LruCacheAssumption DEF CInv, Counted, LP!Shape
  <1>4. \A m \in Nodes :
          l.prev[m] = IF m = n THEN None ELSE IF m = dll.head THEN n ELSE dll.prev[m]
    BY <1>3, SameLists, LP!PushFrontFields DEF Pushed
  <1>5. n \notin dll.live /\ \A m \in dll.live : dll.prev[m] # n
    BY <1>1 DEF Fresh
  <1>6. ASSUME NEW m \in Stranded(dll)
        PROVE  /\ m \in dll.live /\ l.prev[m] = dll.prev[m]
               /\ dll.prev[m] \in Nodes \ (dll.live \cup {n})
    <2>1. m \in Nodes /\ m \in dll.live /\ dll.prev[m] \in Nodes \ dll.live
      BY <1>3 DEF Stranded, LP!List
    <2>2. m # n /\ m # dll.head
      BY <1>3, <1>5, <2>1 DEF LP!Joined
    <2> QED
      BY <1>4, <1>5, <2>1, <2>2
  <1>7. CutOff(dll) \subseteq dll.live
    BY DEF CutOff
  <1>8. CASE ~Full(l)
    <2>1. dll' = l
      BY <1>8 DEF Add
    <2> HIDE DEF l
    <2>2. dll'.live = dll.live \cup {n}
      BY <1>2, <2>1 DEF IsPushed
    <2> QED
      BY <1>6, <1>7, <2>1, <2>2 DEF Stranded
  <1>9. CASE Full(l)
    <2> DEFINE r == Evicted(l)
    <2>1. IsEvicted(r, l, k, n)
      BY <1>1, <1>9, EvictedIs
    <2>2. dll' = r
      BY <1>9 DEF Add
    <2>3. /\ r = LP!PopTail(l) /\ l \in LP!List /\ l.length > 1
          /\ dll.tail \in dll.live /\ l.tail = dll.tail /\ l.tail \in l.live
          /\ l.prev[l.tail] \in l.live /\ l.next[l.prev[l.tail]] = l.tail
      <3>1. r = LP!PopTail(l)
        BY SameLists DEF Evicted
      <3> HIDE DEF l, r
      <3>2. /\ dll.length = Cap /\ dll.tail \in dll.live /\ l.tail = dll.tail
        BY <2>1 DEF IsEvicted
      <3>3. Cap \in Nat \ {0}
        BY LruCacheAssumption
      <3> QED
        BY <1>2, <3>1, <3>2, <3>3 DEF IsPushed, Counted
    <2> HIDE DEF l, r
    <2>4. \A m \in Nodes : r.prev[m] = IF m = l.tail THEN None ELSE l.prev[m]
      BY <1>3, <2>3, LP!PopTailFields
    <2>5. r.live = (dll.live \cup {n}) \ {dll.tail}
      BY <2>1 DEF IsEvicted
    <2>6. dll.tail \notin CutOff(dll) /\ dll.tail \notin Stranded(dll)
      BY <1>3, <2>3, TailNotCutOff
    <2>7. CutOff(dll) \subseteq r.live
      BY <1>7, <2>5, <2>6
    <2>8. ASSUME NEW m \in Stranded(dll) PROVE m \in Stranded(r)
      <3>1. /\ m \in dll.live /\ l.prev[m] = dll.prev[m]
            /\ dll.prev[m] \in Nodes \ (dll.live \cup {n})
        BY <1>6
      <3>2. m # l.tail /\ m \in Nodes
        BY <1>3, <2>3, <2>6, <3>1 DEF LP!List
      <3>3. r.prev[m] = dll.prev[m] /\ m \in r.live
        BY <2>3, <2>4, <2>5, <3>1, <3>2
      <3> QED
        BY <2>5, <3>1, <3>3 DEF Stranded
    <2> QED
      BY <2>2, <2>7, <2>8
  <1> QED
    BY <1>8, <1>9

(* An entry that a tail hit and the next eviction have cut off is never    *)
(* evicted; the first of each such piece is never freed nor used again     *)
(* (CutOffLeaks).                                                          *)
THEOREM CutOffForGood == Spec => CutOffLeaks
  <1> DEFINE A == /\ CutOff(dll) \subseteq dll'.live
                  /\ Stranded(dll) \subseteq Stranded(dll') \/ dll'.bad
  <1>1. CInv /\ [Next]_vars => [A]_vars
    <2> SUFFICES ASSUME CInv, Next PROVE [A]_vars
      OBVIOUS
    <2>1. ASSUME ~dll.bad, NEW k \in Keys, Get(k) PROVE A
      BY <2>1, GetStrands
    <2>2. ASSUME ~dll.bad, NEW k \in Keys, NEW n \in Nodes, Add(k, n) PROVE A
      BY <2>2, AddStrands
    <2>3. CASE Aborted
      BY <2>3 DEF Aborted
    <2> QED
      BY <2>1, <2>2, <2>3 DEF Next
  <1> QED
    BY InitCInv, NextCInv, <1>1, PTL DEF Spec, CutOffLeaks

(* A freed node is only touched by a hit, after a tail hit; LRU_cache_add  *)
(* never touches one (TouchesOnlyAfterTailHit).                            *)
THEOREM AddsTouchNone == Spec => TouchesOnlyAfterTailHit
  <1> DEFINE A == dll'.bad => tailHit /\ hmap' = hmap /\ dll'.live = dll.live
  <1>1. CInv /\ [Next]_vars => [A]_vars
    <2> SUFFICES ASSUME CInv, Next PROVE A
      BY DEF A
    <2>1. ASSUME ~dll.bad, NEW k \in Keys, Get(k) PROVE A
      <3>1. hmap' = hmap
        BY <2>1 DEF Get
      <3> QED
        BY <2>1, <3>1, GetKeeps
    <2>2. ASSUME ~dll.bad, NEW k \in Keys, NEW n \in Nodes, Add(k, n) PROVE A
      BY <2>2, AddKeeps
    <2>3. CASE Aborted
      BY <2>3 DEF Aborted, vars, CInv
    <2> QED
      BY <2>1, <2>2, <2>3 DEF Next
  <1> QED
    BY InitCInv, NextCInv, <1>1, PTL DEF Spec, TouchesOnlyAfterTailHit

-----------------------------------------------------------------------------
(* The file cache implemented.                                             *)

\* The map a table stands for, in the words of FC.
MapOf(h) == [kk \in Keys |-> H!GetIn(h, kk)]

(* The refinement mapping of a state.                                      *)
LEMMA MapIs ==
  /\ \A h : MapOf(h) = [kk \in Keys |-> HP!GetIn(h, kk)]
  /\ \A h : Cardinality(H!Used(h)) = UsedOf(h)
  <1>1. \A h : H!Used(h) = HP!Used(h)
    BY SameTables
  <1>2. \A h, kk : H!GetIn(h, kk) = HP!GetIn(h, kk)
    BY SameTables
  <1> QED
    BY <1>1, <1>2 DEF MapOf, UsedOf

(* The nodes of the list are the resident ones.                            *)
LEMMA ResidentIs == ASSUME CInv PROVE FC!Resident = dll.live
  BY DEF FC!Resident, CInv, Counted, LP!List

LEMMA GetRefines ==
  ASSUME CInv, ~dll.bad, NEW k \in Keys, Get(k)
  PROVE  FC!Get(k) \/ FC!Abort(k)
  <1>1. /\ HP!GetIn(hmap, k) # None /\ dll'.data = dll.data
        /\ dll'.bad => churned
        /\ hmap' = hmap /\ churned' = churned
    BY GetKeeps DEF Get
  <1>2. FC!Hit(k)
    BY <1>1, SameTables DEF FC!Hit
  <1>3. dll.bad = FALSE /\ dll'.bad \in BOOLEAN
    <2>1. dll \in LP!List /\ dll' \in LP!List
      BY GetKeeps DEF CInv, Counted
    <2> QED
      BY <2>1 DEF LP!List
  <1>4. CASE dll'.bad = TRUE
    BY <1>1, <1>2, <1>4 DEF FC!Abort
  <1>5. CASE dll'.bad = FALSE
    BY <1>1, <1>2, <1>3, <1>5 DEF FC!Get, FC!fcvars
  <1> QED
    BY <1>3, <1>4, <1>5

LEMMA AddRefines ==
  ASSUME CInv, ~dll.bad, NEW k \in Keys, NEW n \in Nodes, Add(k, n)
  PROVE  \E v \in Nodes \cup {None} : FC!Add(k, n, v)
  <1> DEFINE l == Pushed(k, n)
  <1>1. n \in Fresh
    BY DEF Add
  <1>2. IsPushed(l, k, n)
    BY <1>1, PushedIs
  <1>3. /\ HP!GoodTable(hmap) /\ None \notin Nodes
        /\ dll.live \subseteq Nodes
        /\ dll.length = Cardinality(dll.live) /\ dll.length <= Cap
        /\ dll.length \in Int /\ Cap \in Nat
        /\ dll.data \in [Nodes -> Keys \cup {None}]
    BY LruCacheAssumption DEF CInv, Counted, LP!List
  <1>4. dll.bad = FALSE /\ dll'.bad = FALSE
    <2>1. dll \in LP!List
      BY DEF CInv, Counted
    <2> QED
      BY <2>1, AddKeeps DEF LP!List
  <1>5. dll.data[n] = None
    BY <1>2 DEF IsPushed, CInv, Counted
  <1>6. FC!Cardinality(FC!Resident) = dll.length
    <2>1. \A X : FC!Cardinality(X) = Cardinality(X)
      BY DEF FC!Cardinality, Cardinality
    <2> QED
      BY <2>1, <1>3, ResidentIs
  <1>7. dll'.data \in [Nodes -> Keys \cup {None}]
    <2>1. CInv'
      BY AddKeeps
    <2> QED
      BY <2>1 DEF CInv, Counted, LP!List
  <1>8. CASE ~Full(l)
    <2>1. dll' = l /\ hmap' = HP!SetIn(hmap, k, n) /\ churned' = churned
      BY <1>8, SameTables DEF Add
    <2> HIDE DEF l
    <2>2. ~(dll.length >= Cap)
      BY <1>2, <1>3, <1>8 DEF IsPushed, Full
    <2>3. IF HP!GetIn(hmap, k) = None /\ UsedOf(hmap) = MapSlots
            THEN hmap' = hmap
            ELSE /\ \A m \in Keys : HP!GetIn(hmap', m) = IF m = k THEN n ELSE HP!GetIn(hmap, m)
                 /\ UsedOf(hmap') = IF HP!GetIn(hmap, k) = None THEN UsedOf(hmap) + 1
                                    ELSE UsedOf(hmap)
      BY <1>3, <2>1, SetIs
    <2>4. IF MapOf(hmap)[k] = None /\ UsedOf(hmap) = MapSlots
            THEN MapOf(hmap') = MapOf(hmap) /\ UsedOf(hmap') = UsedOf(hmap)
            ELSE /\ MapOf(hmap') = [MapOf(hmap) EXCEPT ![k] = n]
                 /\ UsedOf(hmap') = IF MapOf(hmap)[k] = None THEN UsedOf(hmap) + 1
                                    ELSE UsedOf(hmap)
      <3>1. MapOf(hmap)[k] = HP!GetIn(hmap, k)
        BY MapIs
      <3>2. CASE HP!GetIn(hmap, k) = None /\ UsedOf(hmap) = MapSlots
        BY <2>3, <3>1, <3>2
      <3>3. CASE ~(HP!GetIn(hmap, k) = None /\ UsedOf(hmap) = MapSlots)
        <4>1. MapOf(hmap') = [MapOf(hmap) EXCEPT ![k] = n]
          BY <2>3, <3>3, MapIs
        <4> QED
          BY <2>3, <3>1, <3>3, <4>1
      <3> QED
        BY <3>2, <3>3
    <2>5. dll'.data = [m \in Nodes |-> IF m = n THEN k ELSE IF m = None THEN None ELSE dll.data[m]]
      BY <1>2, <1>3, <1>7, <2>1 DEF IsPushed
    <2>6. churned' = (churned \/ None # None)
      BY <2>1 DEF CInv
    <2>7. FC!Without(None) = MapOf(hmap)
      BY DEF FC!Without, MapOf
    <2>8. FC!Cardinality(FC!Resident) < Cap
      BY <1>3, <1>6, <2>2
    <2>9. Cardinality(H!Used(hmap)) = UsedOf(hmap) /\ Cardinality(H!Used(hmap')) = UsedOf(hmap')
      BY MapIs
    <2>10. FC!Add(k, n, None)
      BY <1>4, <1>5, <2>4, <2>5, <2>6, <2>7, <2>8, <2>9 DEF FC!Add, MapOf
    <2> QED
      BY <2>10
  <1>9. CASE Full(l)
    <2> DEFINE t == dll.tail
               v == dll.data[t]
               g == HP!DeleteIn(hmap, v)
    <2>1. IsEvicted(Evicted(l), l, k, n)
      BY <1>1, <1>9, EvictedIs
    <2>2. t \in dll.live /\ t \in Nodes /\ t # None /\ l.tail = t /\ dll.length = Cap /\ n # t
      BY <1>3, <2>1 DEF IsEvicted
    <2>3. v \in Keys
      BY <1>3, <2>2 DEF CInv, Counted
    <2>4. Unmapped(l) = g
      <3>1. L!Field(l.data, l.tail) = v
        BY <1>2, <1>3, <2>2 DEF L!Field, IsPushed
      <3> QED
        BY <3>1, SameTables DEF Unmapped
    <2>5. dll' = Evicted(l) /\ hmap' = HP!SetIn(g, k, n) /\ churned' = TRUE
      BY <1>9, <2>4, SameTables DEF Add
    <2> HIDE DEF l
    <2>6. /\ HP!GoodTable(g) /\ UsedOf(g) = UsedOf(hmap)
          /\ \A m \in Keys : HP!GetIn(g, m) = IF m = v THEN None ELSE HP!GetIn(hmap, m)
      BY <1>3, <2>3, DeleteIs
    <2>7. MapOf(g) = [MapOf(hmap) EXCEPT ![v] = None]
      BY <2>3, <2>6, MapIs
    <2> HIDE DEF g
    <2>8. IF HP!GetIn(g, k) = None /\ UsedOf(g) = MapSlots
            THEN hmap' = g
            ELSE /\ \A m \in Keys : HP!GetIn(hmap', m) = IF m = k THEN n ELSE HP!GetIn(g, m)
                 /\ UsedOf(hmap') = IF HP!GetIn(g, k) = None THEN UsedOf(g) + 1
                                    ELSE UsedOf(g)
      BY <2>5, <2>6, SetIs
    <2>9. IF MapOf(g)[k] = None /\ UsedOf(hmap) = MapSlots
            THEN MapOf(hmap') = MapOf(g) /\ UsedOf(hmap') = UsedOf(hmap)
            ELSE /\ MapOf(hmap') = [MapOf(g) EXCEPT ![k] = n]
                 /\ UsedOf(hmap') = IF MapOf(g)[k] = None THEN UsedOf(hmap) + 1
                                    ELSE UsedOf(hmap)
      <3>1. MapOf(g)[k] = HP!GetIn(g, k)
        BY MapIs
      <3>2. CASE HP!GetIn(g, k) = None /\ UsedOf(g) = MapSlots
        BY <2>6, <2>8, <3>1, <3>2
      <3>3. CASE ~(HP!GetIn(g, k) = None /\ UsedOf(g) = MapSlots)
        <4>1. MapOf(hmap') = [MapOf(g) EXCEPT ![k] = n]
          BY <2>8, <3>3, MapIs
        <4> QED
          BY <2>6, <2>8, <3>1, <3>3, <4>1
      <3> QED
        BY <3>2, <3>3
    <2>10. dll'.data = [m \in Nodes |-> IF m = n THEN k ELSE IF m = t THEN None ELSE dll.data[m]]
      BY <1>7, <2>1, <2>5 DEF IsEvicted
    <2> HIDE DEF t
    <2>11. churned' = (churned \/ t # None)
      BY <2>2, <2>5
    <2>12. FC!Without(t) = MapOf(g)
      BY <2>2, <2>7 DEF FC!Without, MapOf
    <2>13. ~(FC!Cardinality(FC!Resident) < Cap) /\ t \in FC!Resident
      BY <1>3, <1>6, <2>2, ResidentIs
    <2>14. Cardinality(H!Used(hmap)) = UsedOf(hmap) /\ Cardinality(H!Used(hmap')) = UsedOf(hmap')
      BY MapIs
    <2>15. FC!Add(k, n, t)
      BY <1>4, <1>5, <2>9, <2>10, <2>11, <2>12, <2>13, <2>14 DEF FC!Add, MapOf
    <2> QED
      BY <2>2, <2>15
  <1> QED
    BY <1>8, <1>9

(* The list and the table implement the file cache (ImplementsFileCache):  *)
(* a key finds the node it was last added with or nothing, a node once     *)
(* evicted is never found, and a freed node is only touched by a hit after *)
(* an eviction.  What is proved of the server with FileCache in it holds   *)
(* with this cache in its place.                                           *)
THEOREM FileCacheRefined == Spec => ImplementsFileCache
  <1>1. Init => FC!Init
    <2> SUFFICES ASSUME Init PROVE FC!Init
      OBVIOUS
    <2>1. hmap = HP!Created /\ dll = LP!Created /\ churned = FALSE
      BY SameLists, SameTables DEF Init
    <2>2. MapOf(hmap) = [k \in Keys |-> None]
      BY <2>1, TablesAssumed, HP!CreatedEmpty, MapIs
    <2>3. Cardinality(H!Used(hmap)) = 0
      BY <2>1, TablesAssumed, HP!CreatedEmpty, MapIs, SameCounts DEF UsedOf
    <2>4. dll.data = [n \in Nodes |-> None] /\ dll.bad = FALSE
      BY <2>1, LP!CreatedShape
    <2> QED
      BY <2>1, <2>2, <2>3, <2>4 DEF FC!Init, MapOf
  <1>2. CInv /\ [Next]_vars => [FC!Next]_FC!fcvars
    <2> SUFFICES ASSUME CInv, [Next]_vars PROVE FC!Next \/ UNCHANGED FC!fcvars
      OBVIOUS
    <2>1. ASSUME ~dll.bad, NEW k \in Keys, Get(k) PROVE FC!Next
      <3>1. FC!Get(k) \/ FC!Abort(k)
        BY <2>1, GetRefines
      <3> QED
        BY <2>1, <3>1 DEF FC!Next
    <2>2. ASSUME ~dll.bad, NEW k \in Keys, NEW n \in Nodes, Add(k, n) PROVE FC!Next
      <3>1. PICK v \in Nodes \cup {None} : FC!Add(k, n, v)
        BY <2>2, AddRefines
      <3> QED
        BY <2>2, <3>1 DEF FC!Next
    <2>3. CASE UNCHANGED vars
      BY <2>3 DEF vars, FC!fcvars
    <2> QED
      BY <2>1, <2>2, <2>3 DEF Next, Aborted
  <1> QED
    BY InitCInv, NextCInv, <1>1, <1>2, PTL DEF Spec, ImplementsFileCache, FC!Spec

-----------------------------------------------------------------------------
(* The order of the entries, as long as the tail has not been moved.       *)

Once(s) == \A i, j \in 1..Len(s) : s[i] = s[j] => i = j

\* t is s without its j-th element; t is s with its j-th element put first;
\* t is s with x before it.
IsWithout(t, s, j, S) ==
  /\ t \in Seq(S) /\ Len(t) = Len(s) - 1
  /\ \A i \in 1..Len(s) - 1 : t[i] = IF i < j THEN s[i] ELSE s[i + 1]
IsMoved(t, s, j, S) ==
  /\ t \in Seq(S) /\ Len(t) = Len(s)
  /\ \A i \in 1..Len(s) : t[i] = IF i = 1 THEN s[j] ELSE IF i <= j THEN s[i - 1] ELSE s[i]
IsPrefixed(t, x, s, S) ==
  /\ t \in Seq(S) /\ Len(t) = Len(s) + 1
  /\ \A i \in 1..Len(s) + 1 : t[i] = IF i = 1 THEN x ELSE s[i - 1]

LEMMA PrefixedIs ==
  ASSUME NEW S, NEW x \in S, NEW s \in Seq(S), NEW t, t = <<x>> \o s
  PROVE  IsPrefixed(t, x, s, S)
  <1> DEFINE u == <<x>>
  <1>1. u \in Seq(S) /\ Len(u) = 1 /\ u[1] = x /\ Len(s) \in Nat
    OBVIOUS
  <1> HIDE DEF u
  <1>2. /\ u \o s \in Seq(S)
        /\ Len(u \o s) = Len(u) + Len(s)
        /\ \A i \in 1..Len(u) + Len(s) :
             (u \o s)[i] = IF i <= Len(u) THEN u[i] ELSE s[i - Len(u)]
    BY <1>1, ConcatProperties
  <1>3. t = u \o s
    BY DEF u
  <1> QED
    BY <1>1, <1>2, <1>3 DEF IsPrefixed

LEMMA RemoveFirstIs ==
  ASSUME NEW S, NEW s \in Seq(S), Once(s), NEW j \in 1..Len(s),
         NEW t, t = RemoveFirst(s, s[j])
  PROVE  IsWithout(t, s, j, S)
  <1>1. Len(s) \in Nat /\ j \in 1..Len(s) /\ j \in Nat
    OBVIOUS
  <1>2. {i \in 1..Len(s) : s[i] = s[j]} = {j}
    BY DEF Once
  <1>3. SelectInSeq(s, LAMBDA v : v = s[j]) = j
    <2>1. Min({j}) = j
      BY <1>1 DEF Min
    <2> QED
      BY <1>2, <2>1 DEF SelectInSeq
  <1>4. t = RemoveAt(s, j)
    BY <1>3 DEF RemoveFirst
  <1> DEFINE u == SubSeq(s, 1, j - 1)  v == SubSeq(s, j + 1, Len(s))
  <1>5. t = u \o v
    BY <1>4 DEF RemoveAt
  <1>6. \A i \in 1..Len(s) : s[i] \in S
    OBVIOUS
  <1>7. u \in Seq(S) /\ Len(u) = j - 1 /\ \A i \in 1..j - 1 : u[i] = s[i]
    <2>1. 1 \in Int /\ j - 1 \in Int /\ \A i \in 1..j - 1 : s[i] \in S
      BY <1>1, <1>6
    <2>2. /\ u \in Seq(S) /\ Len(u) = IF 1 <= j - 1 THEN (j - 1) - 1 + 1 ELSE 0
          /\ \A i \in 1..(j - 1) - 1 + 1 : u[i] = s[1 + i - 1]
      BY <2>1, SubSeqProperties
    <2> HIDE DEF u
    <2> QED
      BY <2>2, <1>1
  <1>8. v \in Seq(S) /\ Len(v) = Len(s) - j /\ \A i \in 1..Len(s) - j : v[i] = s[j + i]
    <2>1. j + 1 \in Int /\ Len(s) \in Int /\ \A i \in (j + 1)..Len(s) : s[i] \in S
      BY <1>1, <1>6
    <2>2. /\ v \in Seq(S) /\ Len(v) = IF j + 1 <= Len(s) THEN Len(s) - (j + 1) + 1 ELSE 0
          /\ \A i \in 1..Len(s) - (j + 1) + 1 : v[i] = s[(j + 1) + i - 1]
      BY <2>1, SubSeqProperties
    <2> HIDE DEF v
    <2> QED
      BY <2>2, <1>1
  <1> HIDE DEF u, v
  <1>9. /\ u \o v \in Seq(S)
        /\ Len(u \o v) = Len(u) + Len(v)
        /\ \A i \in 1..Len(u) + Len(v) :
             (u \o v)[i] = IF i <= Len(u) THEN u[i] ELSE v[i - Len(u)]
    BY <1>7, <1>8, ConcatProperties
  <1>10. t \in Seq(S) /\ Len(t) = Len(s) - 1
    BY <1>1, <1>5, <1>7, <1>8, <1>9
  <1>11. ASSUME NEW i \in 1..Len(s) - 1 PROVE t[i] = IF i < j THEN s[i] ELSE s[i + 1]
    <2>1. i \in 1..Len(u) + Len(v) /\ t[i] = IF i <= j - 1 THEN u[i] ELSE v[i - (j - 1)]
      <3>1. Len(u) = j - 1 /\ Len(v) = Len(s) - j
        BY <1>7, <1>8
      <3>2. i \in 1..Len(u) + Len(v)
        BY <1>1, <3>1
      <3>3. t[i] = IF i <= Len(u) THEN u[i] ELSE v[i - Len(u)]
        BY <1>5, <1>9, <3>2
      <3> QED
        BY <3>1, <3>2, <3>3
    <2>2. CASE i < j
      <3>1. i \in 1..j - 1 /\ i <= j - 1
        BY <2>2, <1>1
      <3> QED
        BY <2>1, <2>2, <3>1, <1>7
    <2>3. CASE ~(i < j)
      <3>1. i - (j - 1) \in 1..Len(s) - j /\ ~(i <= j - 1) /\ j + (i - (j - 1)) = i + 1
        BY <2>3, <1>1
      <3> QED
        BY <2>1, <2>3, <3>1, <1>8
    <2> QED
      BY <2>2, <2>3
  <1> QED
    BY <1>10, <1>11 DEF IsWithout

(* A hit puts the j-th entry before the others.                            *)
LEMMA MovedIs ==
  ASSUME NEW S, NEW s \in Seq(S), Once(s), NEW j \in 1..Len(s),
         NEW t, t = <<s[j]>> \o RemoveFirst(s, s[j])
  PROVE  IsMoved(t, s, j, S)
  <1> DEFINE u == RemoveFirst(s, s[j])
  <1>1. IsWithout(u, s, j, S)
    BY RemoveFirstIs
  <1>2. t = <<s[j]>> \o u /\ s[j] \in S /\ Len(s) \in Nat
    OBVIOUS
  <1> HIDE DEF u
  <1>3. IsPrefixed(t, s[j], u, S)
    <2>1. u \in Seq(S)
      BY <1>1 DEF IsWithout
    <2> QED
      BY <1>2, <2>1, PrefixedIs
  <1>4. /\ t \in Seq(S) /\ Len(t) = Len(s)
        /\ \A i \in 1..Len(s) : t[i] = IF i = 1 THEN s[j] ELSE u[i - 1]
    BY <1>1, <1>2, <1>3 DEF IsPrefixed, IsWithout
  <1>5. \A i \in 1..Len(s) : i # 1 => u[i - 1] = IF i <= j THEN s[i - 1] ELSE s[i]
    <2> TAKE i \in 1..Len(s)
    <2> HAVE i # 1
    <2>1. i - 1 \in 1..Len(s) - 1 /\ (i - 1) + 1 = i /\ (i - 1 < j <=> i <= j)
      OBVIOUS
    <2>2. u[i - 1] = IF i - 1 < j THEN s[i - 1] ELSE s[(i - 1) + 1]
      BY <2>1, <1>1 DEF IsWithout
    <2> QED
      BY <2>1, <2>2
  <1> QED
    BY <1>4, <1>5 DEF IsMoved

(* The list holds the entries in the order of their use, with the last at  *)
(* its tail.                                                               *)
InOrderOfUse == recency \in Seq(Nodes) /\ LP!Ordered(dll, recency)
OInv == ~tailHit => InOrderOfUse

LEMMA OrderIs ==
  ASSUME InOrderOfUse
  PROVE  /\ Len(recency) = dll.length /\ Once(recency)
         /\ recency \in [1..dll.length -> Nodes]
         /\ \A n \in dll.live : \E j \in 1..dll.length : n = recency[j]
         /\ dll.length # 0 => dll.head = recency[1] /\ dll.tail = recency[dll.length]
  <1>1. /\ dll.length \in Nat /\ recency \in [1..dll.length -> Nodes]
        /\ \A i, j \in 1..dll.length : recency[i] = recency[j] => i = j
        /\ dll.live = {recency[i] : i \in 1..dll.length}
        /\ dll.length # 0 => dll.head = recency[1] /\ dll.tail = recency[dll.length]
    BY DEF InOrderOfUse, LP!Ordered, LP!Linked
  <1>2. Len(recency) = dll.length
    BY <1>1 DEF InOrderOfUse
  <1> QED
    BY <1>1, <1>2 DEF Once

LEMMA GetOrders ==
  ASSUME CInv, OInv, NEW k \in Keys, Get(k)
  PROVE  OInv'
  <1> SUFFICES ASSUME ~tailHit' PROVE InOrderOfUse'
    BY DEF OInv
  <1>1. PICK n \in dll.live :
          /\ HP!GetIn(hmap, k) = n
          /\ dll' = IF n = dll.head THEN dll ELSE LP!MoveToFront(dll, n)
          /\ tailHit' = (tailHit \/ (n = dll.tail /\ n # dll.head))
    BY GetMoves
  <1>2. recency' = <<n>> \o RemoveFirst(recency, n)
    BY <1>1, SameTables DEF Get
  <1>3. ~tailHit /\ (n = dll.tail => n = dll.head)
    BY <1>1 DEF CInv
  <1>4. InOrderOfUse /\ dll \in LP!List /\ None \notin Nodes /\ dll.length \in Nat
    BY <1>3, LruCacheAssumption DEF OInv, CInv, Counted, InOrderOfUse, LP!Ordered
  <1>5. /\ Len(recency) = dll.length /\ Once(recency)
        /\ recency \in [1..dll.length -> Nodes]
        /\ \E j \in 1..dll.length : n = recency[j]
        /\ dll.length # 0 => dll.head = recency[1] /\ dll.tail = recency[dll.length]
    BY <1>4, OrderIs
  <1>6. PICK j \in 1..dll.length : n = recency[j]
    BY <1>5
  <1>7. /\ recency' \in Seq(Nodes) /\ Len(recency') = Len(recency)
        /\ \A i \in 1..Len(recency) :
             recency'[i] = IF i = 1 THEN recency[j]
                           ELSE IF i <= j THEN recency[i - 1] ELSE recency[i]
    <2>1. recency \in Seq(Nodes) /\ j \in 1..Len(recency)
      BY <1>4, <1>5 DEF InOrderOfUse
    <2>2. recency' = <<recency[j]>> \o RemoveFirst(recency, recency[j])
      BY <1>2, <1>6
    <2>3. IsMoved(recency', recency, j, Nodes)
      BY <1>5, <2>1, <2>2, MovedIs
    <2> QED
      BY <2>3 DEF IsMoved
  <1>8. recency' \in [1..dll.length -> Nodes]
    BY <1>5, <1>7
  <1>9. CASE j = 1
    <2>1. dll' = dll
      BY <1>1, <1>4, <1>5, <1>6, <1>9
    <2>2. \A i \in 1..dll.length : recency'[i] = recency[i]
      BY <1>4, <1>5, <1>7, <1>9
    <2>3. recency' = recency
      BY <1>5, <1>8, <2>2
    <2> QED
      BY <1>4, <2>1, <2>3 DEF InOrderOfUse
  <1>10. CASE j # 1
    <2>1. 1 \in 1..dll.length /\ dll.length \in 1..dll.length /\ dll.length # 0
      BY <1>4, <1>6
    <2>2. n # dll.head /\ n # dll.tail
      BY <1>3, <1>5, <1>6, <1>10, <2>1 DEF Once
    <2>3. j # dll.length /\ dll' = LP!MoveToFront(dll, recency[j])
      BY <1>1, <1>5, <1>6, <2>1, <2>2
    <2>4. LP!Ordered(dll, recency)
      BY <1>4 DEF InOrderOfUse
    <2>5. LP!Ordered(dll', recency')
      BY <1>4, <1>5, <1>7, <1>8, <1>10, <2>3, <2>4, LP!MoveOrders
    <2> QED
      BY <1>7, <2>5 DEF InOrderOfUse
  <1> QED
    BY <1>9, <1>10

LEMMA AddOrders ==
  ASSUME CInv, OInv, ~dll.bad, NEW k \in Keys, NEW n \in Nodes, Add(k, n)
  PROVE  OInv'
  <1> SUFFICES ASSUME ~tailHit' PROVE InOrderOfUse'
    BY DEF OInv
  <1> DEFINE l == Pushed(k, n)  s == <<n>> \o recency
  <1>1. ~tailHit /\ n \in Fresh /\ n \in Nodes \ dll.live
    BY DEF Add, Fresh
  <1>2. InOrderOfUse /\ dll \in LP!List /\ None \notin Nodes /\ dll.length \in Nat
    BY <1>1, LruCacheAssumption DEF OInv, CInv, Counted, InOrderOfUse, LP!Ordered
  <1>3. /\ Len(recency) = dll.length /\ Once(recency)
        /\ recency \in Seq(Nodes) /\ LP!Ordered(dll, recency)
        /\ recency \in [1..dll.length -> Nodes]
    BY <1>2, OrderIs DEF InOrderOfUse
  <1>4. /\ s \in Seq(Nodes) /\ Len(s) = dll.length + 1
        /\ s \in [1..dll.length + 1 -> Nodes]
        /\ \A i \in 1..dll.length + 1 : s[i] = IF i = 1 THEN n ELSE recency[i - 1]
    <2>1. IsPrefixed(s, n, recency, Nodes)
      BY <1>1, <1>3, PrefixedIs
    <2> HIDE DEF s
    <2> QED
      BY <2>1, <1>2, <1>3 DEF IsPrefixed
  <1>5. l = LP!PushFront(dll, n, k) /\ l \in LP!List
    <2>1. IsPushed(l, k, n)
      BY <1>1, PushedIs
    <2> QED
      BY <2>1, SameLists DEF IsPushed, Counted, Pushed
  <1>6. IF Full(l) THEN dll' = Evicted(l) /\ recency' = RemoveFirst(s, l.tail)
                   ELSE dll' = l /\ recency' = s
    BY DEF Add
  <1> HIDE DEF l, s
  <1>7. LP!Ordered(l, s) /\ l.length = dll.length + 1
    <2>1. /\ s \in [1..dll.length + 1 -> Nodes]
          /\ \A i \in 1..dll.length + 1 : s[i] = IF i = 1 THEN n ELSE recency[i - 1]
      BY <1>4
    <2> QED
      BY <1>1, <1>2, <1>3, <1>5, <2>1, LP!PushFrontOrders
  <1>8. CASE ~Full(l)
    BY <1>4, <1>6, <1>7, <1>8 DEF InOrderOfUse
  <1>9. CASE Full(l)
    <2> DEFINE h == dll.length + 1
    <2>1. h \in Nat /\ h \in 1..h /\ h - 1 = dll.length /\ h # 0
      BY <1>2
    <2>2. l.length = h /\ Len(s) = h /\ s \in [1..h -> Nodes]
      BY <1>4, <1>7
    <2> HIDE DEF h
    <2>3. l.tail = s[h] /\ Once(s)
      BY <1>7, <2>1, <2>2 DEF LP!Ordered, LP!Linked, Once
    <2>4. /\ recency' \in Seq(Nodes) /\ Len(recency') = h - 1
          /\ \A i \in 1..h - 1 : recency'[i] = IF i < h THEN s[i] ELSE s[i + 1]
      <3>1. s \in Seq(Nodes) /\ h \in 1..Len(s) /\ recency' = RemoveFirst(s, s[h])
        BY <1>4, <1>6, <1>9, <2>1, <2>2, <2>3
      <3>2. IsWithout(recency', s, h, Nodes)
        BY <2>3, <3>1, RemoveFirstIs
      <3> QED
        BY <2>2, <3>2 DEF IsWithout
    <2>5. recency' \in [1..h - 1 -> Nodes] /\ \A i \in 1..h - 1 : recency'[i] = s[i]
      BY <2>1, <2>4
    <2>6. dll' = LP!PopTail(l)
      BY <1>6, <1>9, SameLists DEF Evicted
    <2>7. LP!Ordered(dll', recency')
      <3>1. l.length > 0
        BY <2>1, <2>2
      <3>2. recency' \in [1..l.length - 1 -> Nodes] /\ \A i \in 1..l.length - 1 : recency'[i] = s[i]
        BY <2>2, <2>5
      <3> QED
        BY <1>2, <1>5, <1>7, <2>6, <3>1, <3>2, LP!PopTailOrders
    <2> QED
      BY <2>4, <2>7 DEF InOrderOfUse
  <1> QED
    BY <1>8, <1>9

(* Until a hit moves the tail of the list, the list is linked both ways in *)
(* the order of use (ExactBeforeTailHit), so that LRU_cache_add evicts the *)
(* entry that was least recently used.                                     *)
THEOREM EvictsLeastRecent == Spec => []ExactBeforeTailHit
  <1>1. Init => OInv
    <2> SUFFICES ASSUME Init PROVE InOrderOfUse
      BY DEF OInv
    <2>1. recency = <<>> /\ recency \in Seq(Nodes) /\ dll = LP!Created
      BY SameLists DEF Init
    <2>2. /\ dll.live = {} /\ dll.head = None /\ dll.tail = None /\ dll.length = 0
      BY <2>1 DEF LP!Created
    <2>3. 1..0 = {} /\ recency \in [1..0 -> Nodes] /\ DOMAIN recency = 1..0
      BY <2>1
    <2>4. LP!Linked(dll, recency)
      BY <2>2, <2>3 DEF LP!Linked
    <2> QED
      BY <2>1, <2>2, <2>3, <2>4 DEF InOrderOfUse, LP!Ordered
  <1>2. CInv /\ OInv /\ [Next]_vars => OInv'
    <2> SUFFICES ASSUME CInv, OInv, [Next]_vars PROVE OInv'
      OBVIOUS
    <2>1. CASE UNCHANGED vars
      BY <2>1 DEF vars, OInv, InOrderOfUse
    <2>2. ASSUME ~dll.bad, NEW k \in Keys, Get(k) PROVE OInv'
      BY <2>2, GetOrders
    <2>3. ASSUME ~dll.bad, NEW k \in Keys, NEW n \in Nodes, Add(k, n) PROVE OInv'
      BY <2>3, AddOrders
    <2> QED
      BY <2>1, <2>2, <2>3 DEF Next, Aborted
  <1>3. OInv => ExactBeforeTailHit
    <2>1. \A l, s : LP!Linked(l, s) => L!Linked(l, s)
      BY DEF LP!Linked, L!Linked
    <2> QED
      BY <2>1 DEF OInv, InOrderOfUse, LP!Ordered, ExactBeforeTailHit
  <1> QED
    BY InitCInv, NextCInv, <1>1, <1>2, <1>3, PTL DEF Spec

=============================================================================
