------------------------------ MODULE LruCache -------------------------------
(***************************************************************************)
(* webserver/src/core/containers/LRU_cache.c at the level of its memory: a *)
(* doubly linked list of entries and a hash table from keys to list nodes, *)
(* under any sequence of LRU_cache_get and LRU_cache_add.  It implements   *)
(* FileCache, the promise the server relies on.                            *)
(*                                                                         *)
(* A list node freed by an eviction may still be pointed to from the list. *)
(* The allocator is taken not to return such a node again (AddressSanitizer*)
(* quarantines it), so that touching it is always noticed and ends the     *)
(* process.                                                                *)
(***************************************************************************)
EXTENDS Integers, FiniteSets, SequencesExt

CONSTANTS
  Keys,
  Nodes,
  Cap,       \* cache->size
  MapSlots,  \* cache->hmap->size
  Hash,
  None

ASSUME LruCacheAssumption ==
  /\ Cap \in Nat \ {0} /\ MapSlots \in Nat \ {0}
  /\ Hash \in [Keys -> Nat]
  /\ None \notin Keys \cup Nodes

VARIABLES
  hmap,     \* cache->hmap, a table from keys to nodes
  dll,      \* cache->dll
  \* History
  recency,  \* the nodes in the cache, the one last used first
  tailHit,  \* TRUE once a hit has moved the tail of the list
  churned   \* TRUE once an entry has been evicted

vars == <<hmap, dll, recency, tailHit, churned>>

H == INSTANCE HashTable WITH Vals <- Nodes, Size <- MapSlots
L == INSTANCE LinkedList WITH Labels <- Keys

\* Nodes the allocator may return.
Fresh == {n \in Nodes \ dll.live :
            /\ n \notin {dll.head, dll.tail}
            /\ \A m \in dll.live : n # dll.prev[m] /\ n # dll.next[m]}

Init ==
  /\ hmap = H!Created
  /\ dll = L!Created
  /\ recency = <<>>
  /\ tailHit = FALSE
  /\ churned = FALSE

(* LRU_cache_get of a key that is found.  (Nothing changes on a miss.)     *)
Get(k) ==
  /\ H!Has(hmap, k)
  /\ LET n == H!GetIn(hmap, k) IN
       /\ dll' = L!MoveToFront(L!Touch(dll, {n}), n)
       /\ recency' = <<n>> \o RemoveFirst(recency, n)
       /\ tailHit' = (tailHit \/ (n = dll.tail /\ n # dll.head))
  /\ UNCHANGED <<hmap, churned>>

\* The list once the new node n is in; the list and table after evicting.
Pushed(k, n) == L!PushFront(dll, n, k)
Full(l) == l.length > Cap
Evicted(l) == L!PopTail(l)
Unmapped(l) == H!DeleteIn(hmap, L!Field(l.data, l.tail))

(* LRU_cache_add, also of a key that is there already.                     *)
Add(k, n) ==
  /\ n \in Fresh
  /\ LET l == Pushed(k, n) IN
       IF Full(l)
         THEN /\ dll' = Evicted(l)
              /\ hmap' = H!SetIn(Unmapped(l), k, n)
              /\ recency' = RemoveFirst(<<n>> \o recency, l.tail)
              /\ churned' = TRUE
         ELSE /\ dll' = l
              /\ hmap' = H!SetIn(hmap, k, n)
              /\ recency' = <<n>> \o recency
              /\ UNCHANGED churned
  /\ UNCHANGED tailHit

\* The process has ended.
Aborted == dll.bad /\ UNCHANGED vars

Next ==
  \/ /\ ~dll.bad
     /\ \E k \in Keys : Get(k) \/ \E n \in Nodes : Add(k, n)
  \/ Aborted

Spec == Init /\ [][Next]_vars

-----------------------------------------------------------------------------
(* Properties.                                                             *)

(* Until a hit moves the tail of the list, the list is well linked and in  *)
(* the order of use, so that pop_tail evicts the entry least recently used.*)
(* (move_to_front does not update the tail: after such a hit the next      *)
(* eviction takes the entry just used and cuts off the rest of the list.)  *)
ExactBeforeTailHit == ~tailHit => L!Linked(dll, recency)

(* The entries a tail hit and the next eviction have cut off, those whose  *)
(* prev pointers do not lead back to the head, are never evicted.  The     *)
(* first of them, whose prev is the freed entry, is never freed at all,    *)
(* nor its descriptor closed: it comes back to the list with no hit, since *)
(* a hit on it touches the freed entry.                                    *)
CutOff(l) ==
  {n \in l.live : \A S \in SUBSET l.live :
     n \in S => \E m \in S : l.prev[m] \notin S \cup {None}}
Stranded(l) == {n \in l.live : l.prev[n] \in Nodes \ l.live}
CutOffLeaks ==
  [][/\ CutOff(dll) \subseteq dll'.live
     /\ Stranded(dll) \subseteq Stranded(dll') \/ dll'.bad]_vars

(* A freed node is only ever touched by a hit, on an entry cut off by a    *)
(* tail hit: before the first tail hit no operation touches one, and       *)
(* LRU_cache_add never does.                                               *)
TouchesOnlyAfterTailHit ==
  [][dll'.bad => tailHit /\ hmap' = hmap /\ dll'.live = dll.live]_vars

(* The list and the table together implement the file cache: in particular *)
(* LRU_cache_get finds no entry that pop_tail has freed.                   *)
FC == INSTANCE FileCache WITH
        map     <- [k \in Keys |-> H!GetIn(hmap, k)],
        key     <- dll.data,
        used    <- Cardinality(H!Used(hmap)),
        aborted <- dll.bad
ImplementsFileCache == FC!Spec

=============================================================================
