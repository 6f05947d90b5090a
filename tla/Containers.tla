------------------------------ MODULE Containers ------------------------------
(***************************************************************************)
(* The containers and allocators of webserver/src/core under any sequence  *)
(* of calls that keeps to their contracts: one doubly linked list, one     *)
(* queue, one pool and one bump allocator.  The list's operations on the   *)
(* cache's path, with the defect of moving the tail, are in LruCache;      *)
(* here the tail is not moved.  Calls that return early (of an empty       *)
(* container, without room) change nothing and are left out.               *)
(***************************************************************************)
EXTENDS Integers, FiniteSets, SequencesExt

CONSTANTS
  Nodes,      \* addresses of list nodes
  Cells,      \* addresses of a queue's nodes and items
  Items,      \* data
  PoolSize, BumpSize, Base, Space,   \* see Allocators
  Requests,   \* sizes asked of the bump allocator
  MaxLive,    \* allocations in use at a time (bounds the model)
  Word,       \* number of values of a size_t
  None

ASSUME ContainersAssumption ==
  /\ {PoolSize, BumpSize, Base} \subseteq Nat
  /\ Space \in Nat /\ Base + BumpSize < Space
  /\ Requests \subseteq Nat
  /\ None \notin Nodes \cup Cells
  \* An int, or the length of a list, is less than half a size_t.
  /\ Word \in Nat \ {0} /\ MaxLive \in Nat /\ 2 * MaxLive <= Word
  /\ IsFiniteSet(Nodes) /\ 2 * Cardinality(Nodes) <= Word

VARIABLES
  list,     \* doubly_linked_list, see LinkedList
  queue,    \* see Queue
  held,     \* items dequeued and not freed yet, with their values then
  ret,      \* the item handed out last
  marks,    \* the bits of the pool's bit array
  taken,    \* blocks of the pool in use
  lost,     \* history: bits that malloc happened to return set
  cursor,   \* of the bump allocator
  areas,    \* what it has given out
  wrapped   \* history: a request reached beyond the last address

lists == <<list, queue, held, ret>>
pool  == <<marks, taken, lost>>
bump  == <<cursor, areas, wrapped>>
vars  == <<lists, pool, bump>>

L == INSTANCE LinkedList WITH Labels <- Items
Q == INSTANCE Queue
A == INSTANCE Allocators

Init ==
  /\ list = L!Created
  /\ queue = Q!Created
  /\ held = <<>>
  /\ ret = None
  /\ marks \in A!CreatedPools /\ lost = marks
  /\ taken = {}
  /\ cursor = Base /\ areas = {} /\ wrapped = FALSE

\* The allocator has room for k more.
MayAlloc(k) ==
  Cardinality(list.live) + Cardinality(queue.live) + Cardinality(taken)
    + Cardinality(areas) + k <= MaxLive

-----------------------------------------------------------------------------
(* The list.  pop copies the item out before it frees the node.              *)
Push(x) ==
  /\ MayAlloc(1)
  /\ \E n \in Nodes \ list.live :
       list' \in {L!PushFront(list, n, x), L!PushBack(list, n, x)}
  /\ UNCHANGED <<queue, held, ret, pool, bump>>

Pop ==
  /\ list.length > 0
  /\ \/ list' = L!PopHead(list) /\ ret' = list.data[list.head]
     \/ list' = L!PopTail(list) /\ ret' = list.data[list.tail]
  /\ UNCHANGED <<queue, held, pool, bump>>

Move(n) ==
  /\ n \in list.live /\ (n = list.head \/ n # list.tail)
  /\ list' = L!MoveToFront(list, n)
  /\ UNCHANGED <<queue, held, ret, pool, bump>>

(* The queue.  What dequeue returns is the caller's to free.               *)
Enqueue(x) ==
  /\ MayAlloc(2)
  /\ \E n, d \in Cells \ queue.live :
       n # d /\ queue' = Q!Enqueue(queue, n, d, x)
  /\ UNCHANGED <<list, held, ret, pool, bump>>

Dequeue ==
  /\ queue.head # None
  /\ LET d == queue.data[queue.root] IN
       /\ held' = [c \in DOMAIN held \cup {d} |-> IF c = d THEN queue.value[d] ELSE held[c]]
       /\ ret' = queue.value[d]
  /\ queue' = Q!AfterDequeue(queue)
  /\ UNCHANGED <<list, pool, bump>>

Release(d) ==
  /\ queue' = Q!Free(queue, d)
  /\ held' = [c \in DOMAIN held \ {d} |-> held[c]]
  /\ UNCHANGED <<list, ret, pool, bump>>

Clear ==
  /\ queue' = Q!Cleared(queue)
  /\ UNCHANGED <<list, held, ret, pool, bump>>

(* The pool.                                                               *)
PoolAlloc ==
  /\ MayAlloc(1)
  /\ \E b \in A!Blocks :
       /\ A!FirstFree(marks, b)
       /\ marks' = A!Marked(marks, b)
       /\ taken' = taken \cup {b}
  /\ UNCHANGED <<lists, lost, bump>>

PoolFree(b) ==
  /\ marks' = A!Cleared(marks, b)
  /\ taken' = taken \ {b}
  /\ UNCHANGED <<lists, lost, bump>>

(* The bump allocator.                                                     *)
BumpAlloc(n) ==
  /\ MayAlloc(1) /\ A!Fits(cursor, n)
  /\ cursor' = A!Next(cursor, n)
  /\ areas' = areas \cup {[at |-> cursor, size |-> n]}
  /\ wrapped' = (wrapped \/ cursor + n >= Space)
  /\ UNCHANGED <<lists, pool>>

BumpReset ==
  /\ cursor' = Base /\ areas' = {} /\ wrapped' = FALSE
  /\ UNCHANGED <<lists, pool>>

Next ==
  \/ \E x \in Items : Push(x) \/ Enqueue(x)
  \/ \E n \in Nodes : Move(n)
  \/ Pop \/ Dequeue \/ Clear \/ PoolAlloc \/ BumpReset
  \/ \E d \in DOMAIN held : Release(d)
  \/ \E b \in taken \cup {PoolSize} : PoolFree(b)
  \/ \E n \in Requests : BumpAlloc(n)

Spec == Init /\ [][Next]_vars

-----------------------------------------------------------------------------
(* Properties.                                                             *)

\* The nodes of the list and of the queue, first to last.
ListNodes == L!Chain(list.next, list.head, list.length)
QueueNodes ==
  Q!Path(queue, (Cardinality(queue.live) - Cardinality(DOMAIN held)) \div 2)

(* Whatever is pushed, popped or moved, the list is linked in both         *)
(* directions, of exactly its live nodes, and no operation follows a null  *)
(* or dangling pointer.                                                    *)
ListLinked == ~list.bad /\ L!Linked(list, ListNodes)

(* The queue's memory has one owner: every allocated cell is a node, the   *)
(* item of one node, or an item handed to a caller, none is freed twice or *)
(* leaked, and later calls leave the items handed out alone.               *)
QueueOwned ==
  LET ns == ToSet(QueueNodes)
      ds == {queue.data[n] : n \in ns}
  IN /\ ~queue.bad
     /\ queue.live = ns \cup ds \cup DOMAIN held
     /\ Cardinality(queue.live) = 2 * Len(QueueNodes) + Cardinality(DOMAIN held)
     /\ queue.head = (IF QueueNodes = <<>> THEN None ELSE Last(QueueNodes))
     /\ \A d \in DOMAIN held : queue.value[d] = held[d]

(* doubly_linked_list_get calls every index out of bounds, also those of   *)
(* nodes: an index is compared with -length - 1 as an unsigned number,     *)
(* which is larger than any of them.                                       *)
GetRefuses == \A i \in -MaxLive..MaxLive : L!Get(list, i, Word) = None

(* Memory given out is not given out again before it is given back, by the *)
(* pool (which never gives out the blocks whose bits malloc happened to    *)
(* set) nor by the bump allocator, unless a request wraps around.          *)
GivenOnce ==
  /\ marks = taken \cup lost /\ taken \cap lost = {}
  /\ ~wrapped =>
       /\ \A a \in areas : Base <= a.at /\ a.at + a.size <= Base + BumpSize
       /\ \A a, b \in areas : a = b \/ a.at + a.size <= b.at \/ b.at + b.size <= a.at

(* The list is a sequence and the queue first-in first-out (Sequence).     *)
S == INSTANCE Sequence WITH
       items <- [i \in DOMAIN ListNodes |-> list.data[ListNodes[i]]],
       fifo  <- [i \in DOMAIN QueueNodes |-> queue.value[queue.data[QueueNodes[i]]]]
ImplementsSequence == S!Spec

=============================================================================
