---------------------------- MODULE HashMapProofs ----------------------------
(***************************************************************************)
(* The hash table of hashmap.c, for tables of any size, any set of keys    *)
(* and any hash function: its entries stay well formed, no key is stored   *)
(* twice, and every stored key is found with its value, also while         *)
(* hashmap_rehash runs and after it.  The table implements BoundedMap.     *)
(***************************************************************************)
EXTENDS HashMap, FiniteSetTheorems, TLAPS

-----------------------------------------------------------------------------
(* The probe sequence of a key visits every slot once.                     *)

(* Quotient and remainder are unique, as the % of the probe loops needs.   *)
LEMMA DivisionUnique ==
  ASSUME NEW N \in Nat \ {0}, NEW p \in Int, NEW q \in Int,
         NEW r \in 0..N-1, NEW s \in 0..N-1, N * p + r = N * q + s
  PROVE  r = s
  <1>1. ASSUME NEW x \in Int, NEW y \in Int, x > y
        PROVE  N * x >= N * y + N
    <2>1. PICK d \in Nat : x = y + 1 + d
      <3>1. x - y - 1 \in Nat /\ x = y + 1 + (x - y - 1)
        BY <1>1
      <3> QED
        BY <3>1
    <2>2. N * x = N * y + N + N * d
      BY <2>1
    <2>3. N * d \in Nat
      BY <2>1
    <2> QED
      BY <2>2, <2>3
  <1>2. ~(p > q) /\ ~(q > p)
    BY <1>1
  <1> QED
    BY <1>2

(* The slot of a sum: start + i wraps around at most once.                 *)
LEMMA ModSum ==
  ASSUME NEW N \in Nat \ {0}, NEW a \in Nat, NEW n \in 0..N-1
  PROVE  (a + n) % N = IF (a % N) + n < N THEN (a % N) + n ELSE (a % N) + n - N
  <1> DEFINE p == a \div N  q == (a + n) \div N  r == a % N  s == (a + n) % N
  <1>1. a = N * p + r /\ r \in 0..N-1 /\ p \in Int
    OBVIOUS
  <1>2. a + n = N * q + s /\ s \in 0..N-1 /\ q \in Int
    OBVIOUS
  <1> HIDE DEF p, q, r, s
  <1>3. CASE r + n < N
    <2>1. N * q + s = N * p + (r + n) /\ r + n \in 0..N-1
      BY <1>1, <1>2, <1>3
    <2>2. s = r + n
      BY <2>1, <1>1, <1>2, DivisionUnique
    <2> QED
      BY <2>2, <1>3 DEF r, s
  <1>4. CASE r + n >= N
    <2> DEFINE u == p + 1  v == r + n - N
    <2>1. N * q + s = N * u + v /\ u \in Int /\ v \in 0..N-1
      BY <1>1, <1>2, <1>4
    <2> HIDE DEF u, v
    <2>2. s = v
      BY <2>1, <1>1, <1>2, DivisionUnique
    <2>3. ~(r + n < N)
      BY <1>1, <1>4
    <2> QED
      BY <2>2, <2>3 DEF r, s, v
  <1> QED
    BY <1>1, <1>3, <1>4

(* Slot(k, i) is a slot of the table.                                      *)
LEMMA SlotType ==
  ASSUME NEW k \in Keys, NEW i \in Slots
  PROVE  Slot(k, i) \in Slots
  <1>1. Hash[k] \in Nat /\ Size \in Nat \ {0}
    BY HashTableAssumption
  <1> QED
    BY <1>1 DEF Slot, Slots

(* The turns of a loop that come before one of its turns.                  *)
LEMMA Earlier ==
  ASSUME NEW n \in Slots, NEW j \in 0..n-1
  PROVE  j \in Slots /\ j < n /\ j # n
  BY HashTableAssumption DEF Slots

\* The slot where the probe sequence of a key starts.
Start(k) == Hash[k] % Size

(* Slot(k, i) in terms of the slot the loop starts at.                     *)
LEMMA SlotFrom ==
  ASSUME NEW k \in Keys
  PROVE  /\ Size \in Nat \ {0}
         /\ Start(k) \in 0..Size-1
         /\ \A i \in Slots : Slot(k, i) = IF Start(k) + i < Size THEN Start(k) + i
                                          ELSE Start(k) + i - Size
  <1>1. Hash[k] \in Nat /\ Size \in Nat \ {0}
    BY HashTableAssumption
  <1>2. Start(k) \in 0..Size-1
    BY <1>1 DEF Start
  <1> QED
    BY <1>1, <1>2, ModSum DEF Slot, Slots, Start

(* The loops of hashmap.c look at a slot at most once.                     *)
LEMMA SlotOnce ==
  ASSUME NEW k \in Keys, NEW i \in Slots, NEW j \in Slots,
         Slot(k, i) = Slot(k, j)
  PROVE  i = j
  BY SlotFrom DEF Slots

(* They come to every slot.                                                *)
LEMMA SlotVisited ==
  ASSUME NEW k \in Keys, NEW s \in Slots
  PROVE  \E i \in Slots : Slot(k, i) = s
  <1> DEFINE a == Start(k)
  <1>1. CASE s >= a
    <2>1. s - a \in Slots /\ Slot(k, s - a) = s
      BY SlotFrom, <1>1 DEF Slots
    <2> QED
      BY <2>1
  <1>2. CASE s < a
    <2>1. s - a + Size \in Slots /\ Slot(k, s - a + Size) = s
      BY SlotFrom, <1>2 DEF Slots
    <2> QED
      BY <2>1
  <1> QED
    BY SlotFrom, <1>1, <1>2 DEF Slots

-----------------------------------------------------------------------------
(* One operation on a table.                                               *)

GoodTable(h) == TableOK(h) /\ NoTwins(h) /\ NoGaps(h)

(* hashmap_create: an empty table is good.                                 *)
LEMMA CreatedGood == GoodTable(Created)
  <1>1. \A s \in Slots : Created[s] = Zeroed /\ ~Created[s].exists
    BY DEF Created, Zeroed
  <1>2. Created \in Table
    BY DEF Created, Table, Entry, Zeroed
  <1>3. \A k \in Keys, i \in Slots : Slot(k, i) \in Slots
    BY SlotType DEF Slots
  <1> QED
    BY <1>1, <1>2, <1>3 DEF GoodTable, TableOK, NoTwins, NoGaps, Holds

(* hashmap_set either changes nothing or fills the slot its loop stops at. *)
LEMMA SetFills ==
  ASSUME NEW h, NEW k, NEW v
  PROVE  \/ SetIn(h, k, v) = h
         \/ \E i \in Slots : /\ FindsAt(h, k, i) \/ BlankAt(h, k, i)
                             /\ SetIn(h, k, v) = [h EXCEPT ![Slot(k, i)] = Filled(k, v)]
  BY DEF SetIn, Room

(* hashmap_set keeps the table good: a blank slot it fills is no twin of   *)
(* an entry further on, because no key lies beyond a blank slot.           *)
LEMMA SetGood ==
  ASSUME NEW h, GoodTable(h), NEW k \in Keys, NEW v \in Vals
  PROVE  GoodTable(SetIn(h, k, v))
  <1> DEFINE g == SetIn(h, k, v)
  <1>1. CASE g = h
    BY <1>1
  <1>2. ASSUME NEW i \in Slots, FindsAt(h, k, i) \/ BlankAt(h, k, i),
               g = [h EXCEPT ![Slot(k, i)] = Filled(k, v)]
        PROVE  GoodTable(g)
    <2> DEFINE t == Slot(k, i)
    <2>1. /\ t \in Slots
          /\ h \in Table
          /\ \A s \in Slots : g[s] = IF s = t THEN Filled(k, v) ELSE h[s]
      BY <1>2, SlotType DEF GoodTable, TableOK, Table, Slots
    <2>2. TableOK(g)
      <3>1. Filled(k, v) \in Entry
        BY DEF Filled, Entry
      <3>2. g \in Table
        BY <1>2, <2>1, <3>1 DEF Table
      <3> QED
        BY <2>1, <3>2 DEF TableOK, GoodTable, Filled
    <2>3. ASSUME NEW s \in Slots, h[s].exists, h[s].key = k
          PROVE  s = t
      <3>1. PICK j \in Slots : Slot(k, j) = s
        BY SlotVisited
      <3>2. CASE FindsAt(h, k, i)
        BY <3>2, <2>1, <2>3 DEF FindsAt, Holds, GoodTable, NoTwins
      <3>3. CASE BlankAt(h, k, i)
        <4>1. Holds(h[Slot(k, j)], k)
          BY <3>1, <2>3 DEF Holds
        <4>2. ~(i < j)
          BY <4>1, <3>3 DEF GoodTable, NoGaps, BlankAt, Slots
        <4>3. ~(j < i)
          BY <4>1, <3>3 DEF BlankAt, Reaches, Slots
        <4> QED
          BY <4>2, <4>3, <3>1 DEF Slots
      <3> QED
        BY <1>2, <3>2, <3>3
    <2>4. NoTwins(g)
      BY <2>1, <2>3 DEF NoTwins, GoodTable, Filled
    <2>5. NoGaps(g)
      <3>1. \A s \in Slots : ~Blank(h[s]) => ~Blank(g[s])
        BY <2>1 DEF Blank, Filled
      <3>2. ASSUME NEW m \in Keys, NEW n \in Slots, Holds(g[Slot(m, n)], m),
                   NEW j \in 0..n-1
            PROVE  ~Blank(g[Slot(m, j)])
        <4>1. j \in Slots /\ Slot(m, n) \in Slots /\ Slot(m, j) \in Slots
          BY Earlier, SlotType
        <4>2. CASE Slot(m, n) # t
          BY <4>1, <4>2, <3>1, <3>2, <2>1 DEF GoodTable, NoGaps
        <4>3. CASE Slot(m, n) = t
          <5>1. m = k
            BY <4>3, <3>2, <2>1 DEF Holds, Filled
          <5>2. n = i
            BY <5>1, <4>3, SlotOnce
          <5>3. Reaches(h, k, i)
            BY <1>2 DEF FindsAt, BlankAt
          <5> QED
            BY <5>1, <5>2, <5>3, <4>1, <3>1, <3>2 DEF Reaches
        <4> QED
          BY <4>2, <4>3
      <3> QED
        BY <3>2 DEF NoGaps
    <2> QED
      BY <2>2, <2>4, <2>5 DEF GoodTable
  <1> QED
    BY <1>1, <1>2, SetFills

(* hashmap_delete keeps the table good: the tombstone it leaves is no gap. *)
LEMMA DeleteGood ==
  ASSUME NEW h, GoodTable(h), NEW k \in Keys
  PROVE  GoodTable(DeleteIn(h, k))
  <1> DEFINE g == DeleteIn(h, k)
  <1>1. CASE g = h
    BY <1>1
  <1>2. ASSUME NEW i \in Slots, g = [h EXCEPT ![Slot(k, i)] = Tombstone]
        PROVE  GoodTable(g)
    <2> DEFINE t == Slot(k, i)
    <2>1. /\ t \in Slots
          /\ h \in Table
          /\ \A s \in Slots : g[s] = IF s = t THEN Tombstone ELSE h[s]
      BY <1>2, SlotType DEF GoodTable, TableOK, Table, Slots
    <2>2. ~Tombstone.exists /\ Tombstone.is_tombstone /\ Tombstone \in Entry
      BY DEF Tombstone, Zeroed, Entry
    <2>3. g \in Table
      BY <1>2, <2>1, <2>2 DEF Table
    <2>4. \A s \in Slots : /\ g[s].exists => g[s] = h[s]
                           /\ ~Blank(h[s]) => ~Blank(g[s])
      BY <2>1, <2>2 DEF Blank
    <2>5. \A m \in Keys, n \in Slots : Slot(m, n) \in Slots
      BY SlotType DEF Slots
    <2>6. TableOK(g) /\ NoTwins(g)
      BY <2>3, <2>4 DEF GoodTable, TableOK, NoTwins
    <2>7. NoGaps(g)
      <3>1. ASSUME NEW m \in Keys, NEW n \in Slots, Holds(g[Slot(m, n)], m),
                   NEW j \in 0..n-1
            PROVE  ~Blank(g[Slot(m, j)])
        <4>1. j \in Slots
          BY Earlier
        <4>2. Holds(h[Slot(m, n)], m)
          BY <3>1, <2>4, <2>5 DEF Holds
        <4> QED
          BY <4>1, <4>2, <2>4, <2>5 DEF GoodTable, NoGaps
      <3> QED
        BY <3>1 DEF NoGaps
    <2> QED
      BY <2>6, <2>7 DEF GoodTable
  <1> QED
    BY <1>1, <1>2 DEF DeleteIn, Has

(* hashmap_get finds every entry of a good table.                          *)
LEMMA GetFinds ==
  ASSUME NEW h, GoodTable(h), NEW s \in Slots, h[s].exists
  PROVE  GetIn(h, h[s].key) = h[s].data
  <1> DEFINE k == h[s].key
  <1>1. k \in Keys
    BY DEF GoodTable, TableOK
  <1>2. PICK i \in Slots : Slot(k, i) = s
    BY <1>1, SlotVisited
  <1>3. Holds(h[Slot(k, i)], k)
    BY <1>2 DEF Holds
  <1>4. ASSUME NEW j \in 0..i-1
        PROVE  ~Blank(h[Slot(k, j)]) /\ ~Holds(h[Slot(k, j)], k)
    <2>1. j \in Slots /\ j # i
      BY Earlier
    <2>2. Slot(k, j) \in Slots /\ Slot(k, j) # s
      BY <2>1, <1>1, <1>2, SlotType, SlotOnce
    <2> QED
      BY <2>1, <2>2, <1>1, <1>3 DEF GoodTable, NoGaps, NoTwins, Holds
  <1>5. FindsAt(h, k, i)
    BY <1>3, <1>4 DEF FindsAt, Reaches
  <1>6. ASSUME NEW j \in Slots, FindsAt(h, k, j)
        PROVE  h[Slot(k, j)].data = h[s].data
    BY <1>6, <1>1, SlotType DEF FindsAt, Holds, GoodTable, NoTwins, Slots
  <1> QED
    BY <1>5, <1>6 DEF GetIn, Has

-----------------------------------------------------------------------------
(* What an operation does to the map a table stands for.                   *)

(* Of some turns of a loop one comes first.                                *)
LEMMA FirstTurn ==
  ASSUME NEW I \in SUBSET Slots, I # {}
  PROVE  \E i \in I : \A j \in I : i <= j
  <1>1. I \subseteq Nat
    BY HashTableAssumption DEF Slots
  <1>2. PICK i \in I : \A j \in I : ~(<<j, i>> \in OpToRel(<, Nat))
    BY <1>1, WFMin, NatLessThanWellFounded
  <1>3. \A j \in I : ~(j < i)
    BY <1>1, <1>2 DEF OpToRel
  <1> QED
    BY <1>1, <1>3

\* A slot that holds the key.
HeldAt(h, k, s) == s \in Slots /\ Holds(h[s], k)

(* hashmap_get returns the value of the entry that holds the key, and      *)
(* fails when there is none.                                               *)
LEMMA GetIs ==
  ASSUME NEW h, GoodTable(h), NEW k \in Keys
  PROVE  \/ /\ \E s \in Slots : HeldAt(h, k, s) /\ GetIn(h, k) = h[s].data
            /\ Has(h, k) /\ GetIn(h, k) \in Vals /\ GetIn(h, k) # None
         \/ /\ \A s \in Slots : ~HeldAt(h, k, s)
            /\ ~Has(h, k) /\ GetIn(h, k) = None
  <1>1. CASE Has(h, k)
    <2>1. PICK i \in Slots : FindsAt(h, k, i)
      BY <1>1 DEF Has
    <2>2. HeldAt(h, k, Slot(k, i))
      BY <2>1, SlotType DEF FindsAt, HeldAt
    <2>3. GetIn(h, k) = h[Slot(k, i)].data /\ h[Slot(k, i)].data \in Vals
      BY <2>2, GetFinds DEF HeldAt, Holds, GoodTable, TableOK
    <2> QED
      BY <1>1, <2>2, <2>3, HashTableAssumption DEF HeldAt
  <1>2. CASE ~Has(h, k)
    <2>1. ASSUME NEW s \in Slots, HeldAt(h, k, s) PROVE FALSE
      <3>1. h[s].exists /\ h[s].key = k
        BY <2>1 DEF HeldAt, Holds
      <3>2. GetIn(h, k) = h[s].data /\ h[s].data \in Vals
        BY <3>1, GetFinds DEF GoodTable, TableOK
      <3> QED
        BY <1>2, <3>2, HashTableAssumption DEF GetIn
    <2> QED
      BY <1>2, <2>1 DEF GetIn
  <1> QED
    BY <1>1, <1>2

(* What hashmap_set changes: the slot t, which held the key or was blank   *)
(* in a table without the key.                                             *)
LEMMA SetWhere ==
  ASSUME NEW h, GoodTable(h), NEW k \in Keys, NEW v \in Vals, Room(h, k)
  PROVE  \E t \in Slots :
           /\ \/ HeldAt(h, k, t) /\ Has(h, k)
              \/ Blank(h[t]) /\ ~Has(h, k)
           /\ SetIn(h, k, v) = [h EXCEPT ![t] = Filled(k, v)]
           /\ \A s \in Slots : SetIn(h, k, v)[s] = IF s = t THEN Filled(k, v) ELSE h[s]
  <1>1. PICK i \in Slots : /\ FindsAt(h, k, i) \/ BlankAt(h, k, i)
                           /\ SetIn(h, k, v) = [h EXCEPT ![Slot(k, i)] = Filled(k, v)]
    BY DEF SetIn, Room
  <1> DEFINE t == Slot(k, i)
  <1>2. t \in Slots /\ h \in Table
    BY SlotType DEF GoodTable, TableOK
  <1>3. \A s \in Slots : SetIn(h, k, v)[s] = IF s = t THEN Filled(k, v) ELSE h[s]
    BY <1>1, <1>2 DEF Table
  <1>4. CASE FindsAt(h, k, i)
    BY <1>1, <1>2, <1>3, <1>4 DEF FindsAt, HeldAt, Has
  <1>5. CASE BlankAt(h, k, i)
    <2>1. ASSUME NEW j \in Slots, FindsAt(h, k, j) PROVE FALSE
      <3>1. ~(i < j)
        BY <1>5, <2>1 DEF FindsAt, BlankAt, Reaches, Slots
      <3>2. ~(j < i)
        BY <1>5, <2>1 DEF FindsAt, BlankAt, Reaches, Slots
      <3>3. i # j
        BY <1>5, <2>1 DEF FindsAt, BlankAt, Blank, Holds
      <3> QED
        BY <3>1, <3>2, <3>3 DEF Slots
    <2> QED
      BY <1>1, <1>2, <1>3, <1>5, <2>1 DEF BlankAt, Has
  <1> QED
    BY <1>1, <1>4, <1>5

(* hashmap_set changes the value of its key and of no other.               *)
LEMMA SetMaps ==
  ASSUME NEW h, GoodTable(h), NEW k \in Keys, NEW v \in Vals, Room(h, k),
         NEW m \in Keys
  PROVE  GetIn(SetIn(h, k, v), m) = IF m = k THEN v ELSE GetIn(h, m)
  <1> DEFINE g == SetIn(h, k, v)
  <1>1. GoodTable(g)
    BY SetGood
  <1>2. PICK t \in Slots :
           /\ HeldAt(h, k, t) \/ Blank(h[t])
           /\ \A s \in Slots : g[s] = IF s = t THEN Filled(k, v) ELSE h[s]
    BY SetWhere
  <1>3. g[t].exists /\ g[t].key = k /\ g[t].data = v
    BY <1>2 DEF Filled
  <1> HIDE DEF g
  <1>4. CASE m = k
    <2>1. GetIn(g, g[t].key) = g[t].data
      BY <1>1, <1>3, GetFinds
    <2> QED
      BY <2>1, <1>3, <1>4 DEF g
  <1>5. CASE m # k
    <2>1. \A s \in Slots : HeldAt(g, m, s) <=> HeldAt(h, m, s)
      BY <1>2, <1>5 DEF HeldAt, Holds, Blank, Filled
    <2>2. \A s \in Slots : HeldAt(h, m, s) => g[s] = h[s]
      BY <1>2, <1>5 DEF HeldAt, Holds, Blank
    <2>3. CASE \E s \in Slots : HeldAt(h, m, s)
      <3>1. PICK s \in Slots : HeldAt(h, m, s)
        BY <2>3
      <3>2. GetIn(h, m) = h[s].data
        BY <3>1, GetFinds DEF HeldAt, Holds
      <3>3. HeldAt(g, m, s)
        BY <3>1, <2>1
      <3>4. GetIn(g, m) = g[s].data
        BY <3>3, <1>1, GetFinds DEF HeldAt, Holds
      <3>5. g[s] = h[s]
        BY <3>1, <2>2
      <3> QED
        BY <3>2, <3>4, <3>5, <1>5 DEF g
    <2>4. CASE \A s \in Slots : ~HeldAt(h, m, s)
      <3>1. GetIn(h, m) = None
        BY <2>4, GetIs
      <3>2. \A s \in Slots : ~HeldAt(g, m, s)
        BY <2>1, <2>4
      <3>3. GetIn(g, m) = None
        BY <3>2, <1>1, GetIs
      <3> QED
        BY <3>1, <3>3, <1>5 DEF g
    <2> QED
      BY <2>3, <2>4
  <1> QED
    BY <1>4, <1>5

(* hashmap_delete removes its key and no other.                            *)
LEMMA DeleteMaps ==
  ASSUME NEW h, GoodTable(h), NEW k \in Keys, NEW m \in Keys
  PROVE  /\ GetIn(DeleteIn(h, k), m) = IF m = k THEN None ELSE GetIn(h, m)
         /\ Used(DeleteIn(h, k)) = Used(h)
  <1> DEFINE g == DeleteIn(h, k)
  <1>1. CASE ~Has(h, k)
    BY <1>1, GetIs DEF DeleteIn, GetIn
  <1>2. CASE Has(h, k)
    <2>1. PICK i \in Slots : FindsAt(h, k, i) /\ g = [h EXCEPT ![Slot(k, i)] = Tombstone]
      BY <1>2 DEF Has, DeleteIn
    <2> DEFINE t == Slot(k, i)
    <2>2. t \in Slots /\ HeldAt(h, k, t) /\ h \in Table
      BY <2>1, SlotType DEF FindsAt, HeldAt, GoodTable, TableOK
    <2>3. \A s \in Slots : g[s] = IF s = t THEN Tombstone ELSE h[s]
      BY <2>1, <2>2 DEF Table
    <2>4. ~Tombstone.exists /\ Tombstone.is_tombstone
      BY DEF Tombstone, Zeroed
    <2>5. GoodTable(g)
      BY DeleteGood
    <2>6. Used(g) = Used(h)
      BY <2>2, <2>3, <2>4 DEF Used, Blank, HeldAt, Holds
    <2>7. \A s \in Slots : HeldAt(h, k, s) => s = t
      BY <2>2 DEF HeldAt, Holds, GoodTable, NoTwins
    <2> HIDE DEF g, t
    <2>8. CASE m = k
      <3>1. \A s \in Slots : ~HeldAt(g, k, s)
        BY <2>3, <2>4, <2>7 DEF HeldAt, Holds
      <3>2. GetIn(g, k) = None
        BY <3>1, <2>5, GetIs
      <3> QED
        BY <3>2, <2>6, <2>8 DEF g
    <2>9. CASE m # k
      <3>1. \A s \in Slots : HeldAt(g, m, s) <=> HeldAt(h, m, s)
        BY <2>2, <2>3, <2>4, <2>9 DEF HeldAt, Holds
      <3>2. CASE \E s \in Slots : HeldAt(h, m, s)
        <4>1. PICK s \in Slots : HeldAt(h, m, s)
          BY <3>2
        <4>2. HeldAt(g, m, s)
          BY <3>1, <4>1
        <4>3. GetIn(h, m) = h[s].data
          BY <4>1, GetFinds DEF HeldAt, Holds
        <4>4. GetIn(g, m) = g[s].data
          BY <4>2, <2>5, GetFinds DEF HeldAt, Holds
        <4>5. g[s] = h[s]
          BY <4>2, <2>3, <2>4 DEF HeldAt, Holds
        <4> QED
          BY <4>3, <4>4, <4>5, <2>6, <2>9 DEF g
      <3>3. CASE \A s \in Slots : ~HeldAt(h, m, s)
        <4>1. GetIn(h, m) = None
          BY <3>3, GetIs
        <4>2. GetIn(g, m) = None
          BY <3>1, <3>3, <2>5, GetIs
        <4> QED
          BY <4>1, <4>2, <2>6, <2>9 DEF g
      <3> QED
        BY <3>2, <3>3
    <2> QED
      BY <2>8, <2>9
  <1> QED
    BY <1>1, <1>2

-----------------------------------------------------------------------------
(* How many slots are in use.                                              *)

(* The slots in use are finitely many; they are all of them only when no   *)
(* slot is blank.                                                          *)
LEMMA UsedCount ==
  ASSUME NEW h
  PROVE  /\ IsFiniteSet(Used(h)) /\ Cardinality(Used(h)) \in 0..Size
         /\ Cardinality(Used(h)) < Size <=> \E s \in Slots : Blank(h[s])
  <1>1. IsFiniteSet(Slots) /\ Cardinality(Slots) = Size
    <2>1. 0 \in Int /\ Size - 1 \in Int /\ ~(0 > Size - 1) /\ Size - 1 - 0 + 1 = Size
      BY HashTableAssumption
    <2> QED
      BY <2>1, FS_Interval DEF Slots
  <1>2. Used(h) \in SUBSET Slots
    BY DEF Used
  <1>3. /\ IsFiniteSet(Used(h)) /\ Cardinality(Used(h)) <= Size
        /\ Cardinality(Used(h)) = Size => Used(h) = Slots
    BY <1>1, <1>2, FS_Subset
  <1>4. Cardinality(Used(h)) \in Nat
    BY <1>3, FS_CardinalityType
  <1>5. Used(h) = Slots => Cardinality(Used(h)) = Size
    BY <1>1
  <1>6. Used(h) = Slots <=> ~ \E s \in Slots : Blank(h[s])
    BY DEF Used
  <1> QED
    BY <1>3, <1>4, <1>5, <1>6, HashTableAssumption

(* hashmap_set fails only for an absent key in a table without a blank     *)
(* slot: its loop comes to every slot, so it comes to a blank one.         *)
LEMMA RoomIs ==
  ASSUME NEW h, GoodTable(h), NEW k \in Keys
  PROVE  Room(h, k) <=> GetIn(h, k) # None \/ Cardinality(Used(h)) < Size
  <1>1. ASSUME Room(h, k) PROVE GetIn(h, k) # None \/ Cardinality(Used(h)) < Size
    <2>1. PICK i \in Slots : FindsAt(h, k, i) \/ BlankAt(h, k, i)
      BY <1>1 DEF Room
    <2>2. CASE FindsAt(h, k, i)
      BY <2>2, GetIs DEF Has
    <2>3. CASE BlankAt(h, k, i)
      BY <2>3, SlotType, UsedCount DEF BlankAt
    <2> QED
      BY <2>1, <2>2, <2>3
  <1>2. ASSUME GetIn(h, k) # None PROVE Room(h, k)
    BY <1>2, GetIs DEF Has, Room
  <1>3. ASSUME Cardinality(Used(h)) < Size PROVE Room(h, k)
    <2> DEFINE I == {i \in Slots : Blank(h[Slot(k, i)]) \/ Holds(h[Slot(k, i)], k)}
    <2>1. I # {}
      <3>1. PICK s \in Slots : Blank(h[s])
        BY <1>3, UsedCount
      <3>2. PICK i \in Slots : Slot(k, i) = s
        BY SlotVisited
      <3> QED
        BY <3>1, <3>2
    <2>2. PICK i \in I : \A j \in I : i <= j
      BY <2>1, FirstTurn
    <2>3. Reaches(h, k, i)
      <3>1. ASSUME NEW j \in 0..i-1
            PROVE  ~Blank(h[Slot(k, j)]) /\ ~Holds(h[Slot(k, j)], k)
        <4>1. j \in Slots /\ j < i /\ i \in Nat /\ j \in Nat
          BY Earlier DEF Slots
        <4>2. ~(i <= j)
          BY <4>1
        <4> QED
          BY <4>1, <4>2, <2>2
      <3> QED
        BY <3>1 DEF Reaches
    <2> QED
      BY <2>2, <2>3 DEF Room, FindsAt, BlankAt
  <1> QED
    BY <1>1, <1>2, <1>3

(* hashmap_set uses one more slot for a key that was absent.               *)
LEMMA SetUses ==
  ASSUME NEW h, GoodTable(h), NEW k \in Keys, NEW v \in Vals, Room(h, k)
  PROVE  Cardinality(Used(SetIn(h, k, v))) =
           IF GetIn(h, k) = None THEN Cardinality(Used(h)) + 1 ELSE Cardinality(Used(h))
  <1> DEFINE g == SetIn(h, k, v)
  <1>1. PICK t \in Slots :
           /\ \/ HeldAt(h, k, t) /\ Has(h, k)
              \/ Blank(h[t]) /\ ~Has(h, k)
           /\ \A s \in Slots : g[s] = IF s = t THEN Filled(k, v) ELSE h[s]
    BY SetWhere
  <1> HIDE DEF g
  <1>2. Used(g) = Used(h) \cup {t}
    BY <1>1 DEF Used, Blank, Filled
  <1>3. /\ IsFiniteSet(Used(h))
        /\ Cardinality(Used(h) \cup {t}) =
             IF t \in Used(h) THEN Cardinality(Used(h)) ELSE Cardinality(Used(h)) + 1
    BY UsedCount, FS_AddElement
  <1>4. CASE HeldAt(h, k, t) /\ Has(h, k)
    <2>1. t \in Used(h)
      BY <1>4 DEF HeldAt, Holds, Used, Blank
    <2>2. GetIn(h, k) # None
      BY <1>4, GetIs
    <2> QED
      BY <1>2, <1>3, <2>1, <2>2 DEF g
  <1>5. CASE Blank(h[t]) /\ ~Has(h, k)
    <2>1. t \notin Used(h)
      BY <1>5 DEF Used
    <2>2. GetIn(h, k) = None
      BY <1>5, GetIs
    <2> QED
      BY <1>2, <1>3, <2>1, <2>2 DEF g
  <1> QED
    BY <1>1, <1>4, <1>5

\* The keys hashmap_get finds.
Present(h) == {k \in Keys : GetIn(h, k) # None}

(* A table without tombstones uses one slot for each of its keys.          *)
LEMMA UsedIsPresent ==
  ASSUME NEW h, GoodTable(h), \A s \in Slots : ~h[s].is_tombstone
  PROVE  Cardinality(Used(h)) = Cardinality(Present(h))
  <1> DEFINE f == [s \in Used(h) |-> h[s].key]
  <1>1. \A s \in Used(h) : s \in Slots /\ h[s].exists
    BY DEF Used, Blank
  <1>2. \A s \in Used(h) : f[s] \in Present(h)
    <2> SUFFICES ASSUME NEW s \in Used(h) PROVE h[s].key \in Present(h)
      OBVIOUS
    <2>1. h[s].key \in Keys /\ HeldAt(h, h[s].key, s)
      BY <1>1 DEF HeldAt, Holds, GoodTable, TableOK
    <2> QED
      BY <2>1, <1>1, GetIs DEF Present
  <1>3. \A r, s \in Used(h) : f[r] = f[s] => r = s
    BY <1>1 DEF GoodTable, NoTwins
  <1>4. \A k \in Present(h) : \E s \in Used(h) : f[s] = k
    <2> SUFFICES ASSUME NEW k \in Present(h) PROVE \E s \in Used(h) : h[s].key = k
      OBVIOUS
    <2>1. k \in Keys /\ GetIn(h, k) # None
      BY DEF Present
    <2>2. PICK s \in Slots : HeldAt(h, k, s)
      BY <2>1, GetIs
    <2> QED
      BY <2>2 DEF HeldAt, Holds, Used, Blank
  <1>5. f \in Bijection(Used(h), Present(h))
    <2>1. f \in [Used(h) -> Present(h)]
      BY <1>2
    <2> HIDE DEF f
    <2> QED
      BY <2>1, <1>3, <1>4 DEF Bijection, Injection, Surjection, IsInjective
  <1>6. ExistsBijection(Used(h), Present(h))
    BY <1>5 DEF ExistsBijection
  <1> QED
    BY <1>6, UsedCount, FS_Bijection

-----------------------------------------------------------------------------
(* Every reachable state.                                                  *)

\* The inductive invariant: both tables are good, and the types.
HInv == TypeOK /\ GoodTable(entries) /\ GoodTable(fresh)

(* The invariant holds of a table just created.                            *)
LEMMA InitHInv == Init => HInv
  BY CreatedGood DEF Init, HInv, TypeOK, GoodTable, Idle

(* Every call, and every turn of the loop of hashmap_rehash, preserves it. *)
LEMMA NextHInv == HInv /\ [Next]_hmvars => HInv'
  <1> SUFFICES ASSUME HInv, [Next]_hmvars PROVE HInv'
    OBVIOUS
  <1> USE DEF HInv
  <1>1. ASSUME NEW k \in Keys, NEW v \in Vals, Set(k, v) PROVE HInv'
    <2>1. GoodTable(entries') /\ fresh' = fresh /\ turn' = turn
      BY <1>1, SetGood DEF Set
    <2>2. ret' \in [ok : BOOLEAN, val : Vals \cup {None}]
      BY <1>1 DEF Set, Returns, Room
    <2> QED
      BY <2>1, <2>2 DEF TypeOK, GoodTable
  <1>2. ASSUME NEW k \in Keys, Get(k) PROVE HInv'
    <2>1. GetIn(entries, k) \in Vals \cup {None}
      <3>1. CASE Has(entries, k)
        <4>1. PICK i \in Slots : /\ FindsAt(entries, k, i)
                                 /\ GetIn(entries, k) = entries[Slot(k, i)].data
          BY <3>1 DEF Has, GetIn
        <4>2. Slot(k, i) \in Slots
          BY SlotType DEF Slots
        <4> QED
          BY <4>1, <4>2 DEF FindsAt, Holds, GoodTable, TableOK
      <3> QED
        BY <3>1 DEF GetIn
    <2>2. ret' \in [ok : BOOLEAN, val : Vals \cup {None}]
      BY <1>2, <2>1 DEF Get, Returns, Has
    <2> QED
      BY <1>2, <2>2 DEF Get, TypeOK, GoodTable
  <1>3. ASSUME NEW k \in Keys, Delete(k) PROVE HInv'
    <2>1. GoodTable(entries') /\ fresh' = fresh /\ turn' = turn
      BY <1>3, DeleteGood DEF Delete
    <2>2. ret' \in [ok : BOOLEAN, val : Vals \cup {None}]
      BY <1>3 DEF Delete, Returns, Has
    <2> QED
      BY <2>1, <2>2 DEF TypeOK, GoodTable
  <1>4. CASE RehashBegin
    BY <1>4, CreatedGood, HashTableAssumption DEF RehashBegin, TypeOK, GoodTable
  <1>5. CASE RehashStep
    <2>1. GoodTable(fresh')
      <3>1. CASE entries[turn].exists
        BY <1>5, <3>1, SetGood DEF RehashStep, Rehashed, GoodTable, TableOK
      <3>2. CASE ~entries[turn].exists
        BY <1>5, <3>2 DEF RehashStep, Rehashed
      <3> QED
        BY <3>1, <3>2
    <2>2. turn' \in 0..Size
      BY <1>5, HashTableAssumption DEF RehashStep, Slots
    <2> QED
      BY <1>5, <2>1, <2>2 DEF RehashStep, TypeOK, GoodTable
  <1>6. CASE RehashEnd
    BY <1>6, CreatedGood DEF RehashEnd, TypeOK, GoodTable
  <1>7. CASE UNCHANGED hmvars
    BY <1>7 DEF hmvars, TypeOK, GoodTable, TableOK, NoTwins, NoGaps
  <1> QED
    BY <1>1, <1>2, <1>3, <1>4, <1>5, <1>6, <1>7 DEF Next

(* The tables of hashmap.c hold well-formed entries only, whatever the     *)
(* calls.                                                                  *)
THEOREM TypeCorrect == Spec => []TypeOK
  <1>1. HInv => TypeOK
    BY DEF HInv
  <1> QED
    BY InitHInv, NextHInv, <1>1, PTL DEF Spec

(* hashmap_set never stores a key a second time, nor does hashmap_rehash.  *)
THEOREM KeysUnique == Spec => []Unique
  <1>1. HInv => Unique
    BY DEF HInv, GoodTable, Unique
  <1> QED
    BY InitHInv, NextHInv, <1>1, PTL DEF Spec

(* No blank slot ever lies between the start of a key's probe sequence and *)
(* the entry that holds the key.                                           *)
THEOREM KeysReachable == Spec => []Reachable
  <1>1. HInv => Reachable
    BY DEF HInv, GoodTable, Reachable
  <1> QED
    BY InitHInv, NextHInv, <1>1, PTL DEF Spec

(* hashmap_get finds every stored key, with the value stored under it.     *)
THEOREM KeysFindable == Spec => []Findable
  <1>1. HInv => Findable
    BY GetFinds DEF HInv, Findable
  <1> QED
    BY InitHInv, NextHInv, <1>1, PTL DEF Spec

-----------------------------------------------------------------------------
(* Rehashing.                                                              *)

\* The entry of one of the first n slots holds k.
Copied(k, n) == \E s \in Slots : s < n /\ HeldAt(entries, k, s)

(* What is true while hashmap_rehash copies: the new table has no          *)
(* tombstone, uses at most as many slots as were looked at (so that its    *)
(* hashmap_set always has room), and maps the keys copied so far.          *)
Copying ==
  turn \in 0..Size =>
    /\ \A s \in Slots : ~fresh[s].is_tombstone
    /\ Cardinality(Used(fresh)) <= turn
    /\ \A k \in Keys :
         GetIn(fresh, k) = IF Copied(k, turn) THEN GetIn(entries, k) ELSE None

(* Nothing is in use in a table just created.                              *)
LEMMA CreatedEmpty ==
  /\ \A s \in Slots : ~Created[s].is_tombstone
  /\ Used(Created) = {} /\ Cardinality(Used(Created)) = 0
  /\ \A k \in Keys : GetIn(Created, k) = None
  <1>1. \A s \in Slots : Created[s] = Zeroed
    BY DEF Created
  <1>2. ~Zeroed.is_tombstone /\ ~Zeroed.exists
    BY DEF Zeroed
  <1>3. Used(Created) = {}
    BY <1>1, <1>2 DEF Used, Blank
  <1>4. ASSUME NEW k \in Keys PROVE GetIn(Created, k) = None
    <2>1. \A s \in Slots : ~HeldAt(Created, k, s)
      BY <1>1, <1>2 DEF HeldAt, Holds
    <2> QED
      BY <2>1, CreatedGood, GetIs
  <1> QED
    BY <1>1, <1>2, <1>3, <1>4, FS_EmptySet

(* One turn of the loop of hashmap_rehash.                                 *)
LEMMA StepCopying == HInv /\ Copying /\ RehashStep => Copying'
  <1> SUFFICES ASSUME HInv, Copying, RehashStep PROVE Copying'
    OBVIOUS
  <1> DEFINE e == entries[turn]
  <1>1. /\ turn \in Slots /\ turn \in 0..Size /\ turn' = turn + 1
        /\ fresh' = Rehashed(fresh, e, turn) /\ entries' = entries
    BY HashTableAssumption DEF RehashStep, Slots
  <1>2. GoodTable(entries) /\ GoodTable(fresh)
    BY DEF HInv
  <1>3. /\ \A s \in Slots : ~fresh[s].is_tombstone
        /\ Cardinality(Used(fresh)) <= turn
        /\ \A k \in Keys :
             GetIn(fresh, k) = IF Copied(k, turn) THEN GetIn(entries, k) ELSE None
    BY <1>1 DEF Copying
  <1>4. \A k \in Keys : Copied(k, turn)' <=> Copied(k, turn) \/ HeldAt(entries, k, turn)
    <2> SUFFICES ASSUME NEW k \in Keys
                 PROVE  Copied(k, turn)' <=> Copied(k, turn) \/ HeldAt(entries, k, turn)
      OBVIOUS
    <2>1. \A s \in Slots : s < turn + 1 <=> s < turn \/ s = turn
      BY <1>1 DEF Slots
    <2>2. Copied(k, turn)' <=> \E s \in Slots : s < turn + 1 /\ HeldAt(entries, k, s)
      BY <1>1 DEF Copied, HeldAt, Holds
    <2> QED
      BY <1>1, <2>1, <2>2, Zenon DEF Copied
  <1>5. Cardinality(Used(fresh)) \in Nat
    BY UsedCount DEF Slots
  <1>6. CASE ~e.exists
    <2>1. fresh' = fresh
      BY <1>1, <1>6 DEF Rehashed
    <2>2. \A k \in Keys : Copied(k, turn)' <=> Copied(k, turn)
      BY <1>4, <1>6 DEF HeldAt, Holds
    <2>3. Cardinality(Used(fresh')) <= turn'
      BY <1>1, <1>3, <1>5, <2>1 DEF Slots
    <2>4. \A k \in Keys :
            GetIn(fresh', k) = IF Copied(k, turn)' THEN GetIn(entries', k) ELSE None
      BY <1>1, <1>3, <2>1, <2>2
    <2> QED
      BY <1>3, <2>1, <2>3, <2>4 DEF Copying
  <1>7. CASE e.exists
    <2>1. e.key \in Keys /\ e.data \in Vals /\ HeldAt(entries, e.key, turn)
      BY <1>1, <1>2, <1>7 DEF GoodTable, TableOK, HeldAt, Holds
    <2>2. fresh' = SetIn(fresh, e.key, e.data)
      BY <1>1, <1>7 DEF Rehashed
    <2>3. Room(fresh, e.key)
      <3>1. Cardinality(Used(fresh)) < Size
        BY <1>1, <1>3, <1>5, HashTableAssumption DEF Slots
      <3> QED
        BY <3>1, <2>1, <1>2, RoomIs
    <2>4. GetIn(entries, e.key) = e.data
      BY <1>1, <1>2, <1>7, GetFinds
    <2> HIDE DEF e
    <2>5. \A s \in Slots : ~fresh'[s].is_tombstone
      <3>1. PICK t \in Slots : \A s \in Slots :
               fresh'[s] = IF s = t THEN Filled(e.key, e.data) ELSE fresh[s]
        BY <1>2, <2>1, <2>2, <2>3, SetWhere
      <3> QED
        BY <3>1, <1>3 DEF Filled
    <2>6. Cardinality(Used(fresh')) <= turn'
      <3>1. \/ Cardinality(Used(fresh')) = Cardinality(Used(fresh)) + 1
            \/ Cardinality(Used(fresh')) = Cardinality(Used(fresh))
        BY <1>2, <2>1, <2>2, <2>3, SetUses
      <3> QED
        BY <3>1, <1>1, <1>3, <1>5 DEF Slots
    <2>7. \A k \in Keys :
            GetIn(fresh', k) = IF Copied(k, turn)' THEN GetIn(entries', k) ELSE None
      <3> SUFFICES ASSUME NEW k \in Keys
                   PROVE  GetIn(fresh', k) = IF Copied(k, turn)' THEN GetIn(entries, k) ELSE None
        BY <1>1
      <3>1. GetIn(fresh', k) = IF k = e.key THEN e.data ELSE GetIn(fresh, k)
        BY <1>2, <2>1, <2>2, <2>3, SetMaps
      <3>2. k # e.key => ~HeldAt(entries, k, turn)
        BY <1>1 DEF HeldAt, Holds, e
      <3> QED
        BY <3>1, <3>2, <1>3, <1>4, <2>1, <2>4
    <2> QED
      BY <2>5, <2>6, <2>7 DEF Copying
  <1> QED
    BY <1>6, <1>7

\* The inductive invariant with rehashing: what its new table stands for.
MInv == HInv /\ Copying

LEMMA InitMInv == Init => MInv
  <1>1. Init => Copying
    BY HashTableAssumption DEF Init, Copying, Idle
  <1> QED
    BY <1>1, InitHInv DEF MInv

(* While hashmap_rehash runs nothing else is called on the table.          *)
LEMMA NextMInv == MInv /\ [Next]_hmvars => MInv'
  <1> SUFFICES ASSUME MInv, [Next]_hmvars PROVE Copying'
    BY NextHInv DEF MInv
  <1>0. Idle \notin 0..Size
    BY HashTableAssumption DEF Idle
  <1>1. CASE turn = Idle /\ turn' = turn
    BY <1>0, <1>1 DEF Copying
  <1>2. CASE RehashBegin
    <2>1. fresh' = Created /\ turn' = 0 /\ entries' = entries
      BY <1>2 DEF RehashBegin
    <2>2. \A k \in Keys : ~Copied(k, turn)'
      BY <2>1, HashTableAssumption DEF Copied, Slots
    <2> QED
      BY <2>1, <2>2, CreatedEmpty DEF Copying
  <1>3. CASE RehashStep
    BY <1>3, StepCopying DEF MInv
  <1>4. CASE RehashEnd
    BY <1>0, <1>4 DEF RehashEnd, Copying
  <1>5. CASE UNCHANGED hmvars
    BY <1>5 DEF hmvars, MInv, Copying, Copied, HeldAt, Holds, GetIn, Has, FindsAt,
                Reaches, Used, Blank
  <1>6. ASSUME NEW k \in Keys, NEW v \in Vals, Set(k, v) PROVE Copying'
    BY <1>1, <1>6 DEF Set
  <1>7. ASSUME NEW k \in Keys, Get(k) \/ Delete(k) PROVE Copying'
    BY <1>1, <1>7 DEF Get, Delete
  <1> QED
    BY <1>2, <1>3, <1>4, <1>5, <1>6, <1>7 DEF Next

\* Having looked at every slot, hashmap_rehash has copied every key.
LEMMA CopiedAll ==
  ASSUME MInv, turn = Size
  PROVE  /\ \A s \in Slots : ~fresh[s].is_tombstone
         /\ \A k \in Keys : GetIn(fresh, k) = GetIn(entries, k)
  <1>1. /\ \A s \in Slots : ~fresh[s].is_tombstone
        /\ \A k \in Keys :
             GetIn(fresh, k) = IF Copied(k, Size) THEN GetIn(entries, k) ELSE None
    BY HashTableAssumption DEF MInv, Copying
  <1>2. ASSUME NEW k \in Keys PROVE GetIn(fresh, k) = GetIn(entries, k)
    <2>1. CASE \E s \in Slots : HeldAt(entries, k, s)
      <3>1. Copied(k, Size)
        BY <2>1, HashTableAssumption DEF Copied, Slots
      <3> QED
        BY <3>1, <1>1
    <2>2. CASE \A s \in Slots : ~HeldAt(entries, k, s)
      <3>1. ~Copied(k, Size)
        BY <2>2 DEF Copied
      <3>2. GetIn(entries, k) = None
        BY <2>2, GetIs DEF MInv, HInv
      <3> QED
        BY <3>1, <3>2, <1>1
    <2> QED
      BY <2>1, <2>2
  <1> QED
    BY <1>1, <1>2

(* The table hashmap_rehash ends with has no tombstone and maps every key  *)
(* as the old one did (RehashCleans).                                      *)
THEOREM RehashKeeps == Spec => []RehashCleans
  <1>1. MInv => RehashCleans
    BY CopiedAll DEF RehashCleans
  <1> QED
    BY InitMInv, NextMInv, <1>1, PTL DEF Spec

-----------------------------------------------------------------------------
(* The refinement of BoundedMap, one call at a time.                       *)

\* The map and the room taken that the table stands for.
MapOf(h) == [k \in Keys |-> GetIn(h, k)]
UsedOf(h) == Cardinality(Used(h))

LEMMA InitBounded == Init => BM!Init
  BY CreatedEmpty DEF Init, BM!Init

LEMMA SetBounded ==
  ASSUME HInv, NEW k \in Keys, NEW v \in Vals, Set(k, v)
  PROVE  BM!Set(k, v)
  <1>1. /\ entries' = SetIn(entries, k, v)
        /\ ret' = [ok |-> Room(entries, k), val |-> None]
        /\ GoodTable(entries)
    BY DEF Set, Returns, HInv
  <1>2. Room(entries, k) <=> GetIn(entries, k) # None \/ UsedOf(entries) < Size
    BY <1>1, RoomIs DEF UsedOf
  <1>3. CASE Room(entries, k)
    <2>1. MapOf(entries') = [MapOf(entries) EXCEPT ![k] = v]
      <3>1. \A m \in Keys : GetIn(entries', m) = IF m = k THEN v ELSE GetIn(entries, m)
        BY <1>1, <1>3, SetMaps
      <3> QED
        BY <3>1 DEF MapOf
    <2>2. UsedOf(entries') = IF GetIn(entries, k) = None THEN UsedOf(entries) + 1
                             ELSE UsedOf(entries)
      BY <1>1, <1>3, SetUses DEF UsedOf
    <2>3. ret' = [ok |-> TRUE, val |-> None]
      BY <1>1, <1>3
    <2> QED
      BY <1>2, <1>3, <2>1, <2>2, <2>3 DEF BM!Set, BM!Returns, MapOf, UsedOf
  <1>4. CASE ~Room(entries, k)
    <2>1. entries' = entries
      BY <1>1, <1>4 DEF SetIn
    <2>2. MapOf(entries') = MapOf(entries) /\ UsedOf(entries') = UsedOf(entries)
      BY <2>1
    <2>3. Room(entries, k) = FALSE
      BY <1>4 DEF Room
    <2>4. ret' = [ok |-> FALSE, val |-> None]
      BY <1>1, <2>3
    <2> QED
      BY <1>2, <1>4, <2>2, <2>4 DEF BM!Set, BM!Returns, MapOf, UsedOf
  <1> QED
    BY <1>3, <1>4

LEMMA GetBounded ==
  ASSUME HInv, NEW k \in Keys, Get(k)
  PROVE  BM!Get(k)
  <1>1. /\ entries' = entries
        /\ ret' = [ok |-> Has(entries, k), val |-> GetIn(entries, k)]
        /\ GoodTable(entries)
    BY DEF Get, Returns, HInv
  <1>2. Has(entries, k) <=> GetIn(entries, k) # None
    BY <1>1, GetIs
  <1>3. MapOf(entries') = MapOf(entries) /\ UsedOf(entries') = UsedOf(entries)
    BY <1>1
  <1>4. ret' = [ok |-> GetIn(entries, k) # None, val |-> GetIn(entries, k)]
    <2>1. Has(entries, k) = (GetIn(entries, k) # None)
      BY <1>2 DEF Has
    <2> QED
      BY <1>1, <2>1
  <1> QED
    BY <1>3, <1>4 DEF BM!Get, BM!Returns, MapOf, UsedOf

LEMMA DeleteBounded ==
  ASSUME HInv, NEW k \in Keys, Delete(k)
  PROVE  BM!Delete(k)
  <1>1. /\ entries' = DeleteIn(entries, k)
        /\ ret' = [ok |-> Has(entries, k), val |-> None]
        /\ GoodTable(entries)
    BY DEF Delete, Returns, HInv
  <1>2. Has(entries, k) = (GetIn(entries, k) # None)
    BY <1>1, GetIs DEF Has
  <1>3. \A m \in Keys : GetIn(entries', m) = IF m = k THEN None ELSE GetIn(entries, m)
    BY <1>1, DeleteMaps
  <1>4. MapOf(entries') = [MapOf(entries) EXCEPT ![k] = None]
    BY <1>3 DEF MapOf
  <1>5. UsedOf(entries') = UsedOf(entries)
    BY <1>1, DeleteMaps DEF UsedOf
  <1> QED
    BY <1>1, <1>2, <1>4, <1>5 DEF BM!Delete, BM!Returns, MapOf, UsedOf

(* The end of hashmap_rehash gives back the room of the deleted keys.      *)
LEMMA RehashBounded ==
  ASSUME MInv, RehashEnd
  PROVE  BM!Rehash
  <1>1. turn = Size /\ entries' = fresh /\ ret' = ret /\ GoodTable(fresh)
    BY DEF RehashEnd, MInv, HInv
  <1>2. MapOf(entries') = MapOf(entries)
    BY <1>1, CopiedAll DEF MapOf
  <1>3. UsedOf(entries') = Cardinality(Present(fresh))
    BY <1>1, CopiedAll, UsedIsPresent DEF UsedOf
  <1>4. Present(fresh) = {k \in Keys : MapOf(entries)[k] # None}
    BY <1>1, CopiedAll DEF Present, MapOf
  <1>5. \A X : BM!Cardinality(X) = Cardinality(X)
    BY DEF BM!Cardinality, Cardinality
  <1> QED
    BY <1>1, <1>2, <1>3, <1>4, <1>5 DEF BM!Rehash, MapOf, UsedOf

(* The table implements the bounded map (ImplementsBoundedMap): get, set   *)
(* and delete are those of a partial map, set fails only for an absent key *)
(* when every slot is worn out, and a rehash, in however many turns, shows *)
(* at its end only, as the room the deleted keys gave back.                *)
THEOREM MapRefined == Spec => ImplementsBoundedMap
  <1>1. MInv /\ [Next]_hmvars => [BM!Next]_BM!bmvars
    <2> SUFFICES ASSUME MInv, [Next]_hmvars PROVE BM!Next \/ UNCHANGED BM!bmvars
      OBVIOUS
    <2>0. HInv
      BY DEF MInv
    <2>1. ASSUME NEW k \in Keys, NEW v \in Vals, Set(k, v) PROVE BM!Next
      BY <2>0, <2>1, SetBounded DEF BM!Next
    <2>2. ASSUME NEW k \in Keys, Get(k) PROVE BM!Next
      BY <2>0, <2>2, GetBounded DEF BM!Next
    <2>3. ASSUME NEW k \in Keys, Delete(k) PROVE BM!Next
      BY <2>0, <2>3, DeleteBounded DEF BM!Next
    <2>4. CASE RehashBegin \/ RehashStep \/ UNCHANGED hmvars
      <3>1. entries' = entries /\ ret' = ret
        BY <2>4 DEF RehashBegin, RehashStep, hmvars
      <3>2. MapOf(entries') = MapOf(entries) /\ UsedOf(entries') = UsedOf(entries)
        BY <3>1
      <3> QED
        BY <3>1, <3>2 DEF BM!bmvars, MapOf, UsedOf
    <2>5. CASE RehashEnd
      BY <2>5, RehashBounded DEF BM!Next
    <2> QED
      BY <2>1, <2>2, <2>3, <2>4, <2>5 DEF Next
  <1> QED
    BY InitMInv, NextMInv, InitBounded, <1>1, PTL DEF Spec, ImplementsBoundedMap, BM!Spec

=============================================================================
