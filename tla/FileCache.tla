------------------------------ MODULE FileCache ------------------------------
(***************************************************************************)
(* What the open-file cache of webserver/src/core/containers/LRU_cache.c   *)
(* promises to its only client, async_io_open_file.  A key finds the node  *)
(* it was last mapped to; a node stays resident until it is the victim of  *)
(* an eviction, and then its key finds nothing.  Which resident node is    *)
(* the victim is left open here, and so is the moment at which the real    *)
(* list, once it has evicted anything, may touch a freed node and abort    *)
(* the process (the default build runs under AddressSanitizer).            *)
(* Module LruCache implements this specification with the linked list and  *)
(* the hash table of the code; module Server composes with it.             *)
(***************************************************************************)
EXTENDS Integers, FiniteSets

CONSTANTS
  Keys,      \* labels: the paths of the public files
  Nodes,     \* identities of list nodes (cmem_alloc in LRU_cache_add)
  Cap,       \* LRU_cache.size, the number of nodes kept
  MapSlots,  \* slots of the hash table: Cap / 0.67, rounded down
  None

VARIABLES
  map,      \* what the hash table finds for a key: a node or None
  key,      \* the key of a resident node, None for a node not in the cache
  used,     \* slots of the hash table that are no longer empty
  churned,  \* TRUE once some node has been evicted
  aborted   \* TRUE once a freed list node has been dereferenced

fcvars == <<map, key, used, churned, aborted>>

Resident == {n \in Nodes : key[n] # None}

Init ==
  /\ map = [k \in Keys |-> None]
  /\ key = [n \in Nodes |-> None]
  /\ used = 0
  /\ churned = FALSE
  /\ aborted = FALSE

Hit(k) == map[k] # None

(* LRU_cache_get: the order of use changes, what is found does not.        *)
Get(k) == Hit(k) /\ UNCHANGED fcvars

(* The hash table without the key of the evicted node v.                   *)
Without(v) == IF v = None THEN map ELSE [map EXCEPT ![key[v]] = None]

(* LRU_cache_add of key k in the fresh node n, evicting v (or nothing).    *)
(* A slot of the table is never reused after a deletion, so once all of    *)
(* them have been used the new node is listed but not found.               *)
Add(k, n, v) ==
  /\ key[n] = None
  /\ IF Cardinality(Resident) < Cap THEN v = None ELSE v \in Resident
  /\ key' = [m \in Nodes |-> IF m = n THEN k ELSE IF m = v THEN None ELSE key[m]]
  /\ IF Without(v)[k] = None /\ used = MapSlots
       THEN map' = Without(v) /\ used' = used
       ELSE /\ map' = [Without(v) EXCEPT ![k] = n]
            /\ used' = IF Without(v)[k] = None THEN used + 1 ELSE used
  /\ churned' = (churned \/ v # None)
  /\ UNCHANGED aborted

(* A hit whose list node hangs off a freed one.                            *)
Abort(k) ==
  /\ Hit(k)
  /\ churned
  /\ aborted' = TRUE
  /\ UNCHANGED <<map, key, used, churned>>

Next ==
  /\ ~aborted
  /\ \E k \in Keys :
       \/ Get(k)
       \/ Abort(k)
       \/ \E n \in Nodes, v \in Nodes \cup {None} : Add(k, n, v)

Spec == Init /\ [][Next]_fcvars

-----------------------------------------------------------------------------
TypeOK ==
  /\ map \in [Keys -> Nodes \cup {None}]
  /\ key \in [Nodes -> Keys \cup {None}]
  /\ used \in 0..MapSlots
  /\ churned \in BOOLEAN
  /\ aborted \in BOOLEAN

=============================================================================
