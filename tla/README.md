# A TLA+ development of Cerverus

Cerverus is a single-threaded HTTP server on `io_uring`. Handlers submit
operations and return; the kernel completes them in any order; one loop takes
the completions and resumes the *protothread* that was waiting for each. This
directory holds models of its core, the configurations that check them with
TLC, and proofs checked by TLAPS.

All paths below are relative to the repository; `src/` there is
`webserver/src/` unless another prefix is written. "Descriptor" means file
descriptor.

## 1. Inventory

| Component | Source | State | Operations |
|---|---|---|---|
| Asynchronous I/O | `network/IO/async_io.c`, `.h` | the ring, the file cache, one heap context per operation in flight | `handle_X_submission`, `handle_X_completion` for accept, recv, openat, statx, send, splice_all, close; `async_io_process`; the sub-protothreads `open_file`, `send_buffer`, `sendfile` |
| File-serving protothread | `network/routing/router.c:55-134`, `core/util/protothread.h` | `send_file_locals`, a resume label | open, send the header, splice the file, close the client |
| Public directory listing | `core/util/util.c` | a stack of open directories, each with a pointer to the array of names | `_list_files`, `recursive_walk` |
| Request dispatch | `router.c:21-53`, `196-235` | the set of public files, the route trie | `router_create`, `router_add_route`, `router_handle_request` |
| Accept loop | `network/server.c` | eight armed accepts | `server_run` |
| Open-file cache | `core/containers/LRU_cache.c` | a list of `file_t` in order of use, a table from paths to list nodes | `LRU_cache_get`, `LRU_cache_add`, an eviction callback |
| Hash table | `core/containers/hashmap.c` | an array of entries with tombstones | set, get, delete, rehash |
| Doubly linked list | `core/containers/doubly_linked_list.c` | nodes, head, tail, length | push/pop at both ends, get, move to front |
| Request parser | `network/http/request.c` | the receive buffer | `request_parse` |
| Route trie | `network/routing/route_trie.c`, `route.c` | a tree of segments per method | add, find |
| Response builder | `network/http/response.c` | a list of headers | add, serialize |
| Dynamic array | `core/containers/darray.c` | size, length and elements in one allocation that growth moves | create, resize, add |
| Queue | `core/containers/queue.c` | nodes and copies of items | enqueue, dequeue, clear |
| Allocators | `core/memory/pool_allocator.c`, `bump_allocator.c`, `core/util/bitwise.c` | a bit per block; a cursor | alloc, free, reset |
| Example program | `project/src/main.c` | the locals of one route's protothread | `route_callback_test`, start-up |
| Strings, logging, timing | `core/vendor/sds.c`, `sv.c`, `logger.c`, ... | | |

**How they interact.** `async_io_process` takes the oldest completion and calls
its handler. The handler resumes a protothread, which runs until it submits the
next operation. Protothreads (`route_callback_send_file`, and
`route_callback_test` of the example program) share the descriptor table, the
cache and the ring; nothing else. `async_io_open_file` looks a path up in the cache; on a miss
it opens the file (two operations) and adds it, which may evict another file,
whose descriptor the eviction callback closes with an operation nobody waits
for. A response works on a *copy* of the cached `file_t`.

**What is hard.** Between two operations of a response any others may run: two
responses miss on the same path; a descriptor is evicted and its number reused
while a copy is in use; a failed operation resumes its protothread as a
successful one does (`OP_CHECK`), so later steps run on values never written.
Resources are lost (a pipe per response, an accept slot per failed accept, a
table slot per deletion). The containers are linked
and moved by hand, and callers keep pointers into them. PROJECT.json's `hazards`
lists each at its line.

**What makes it correct.** A waiting protothread is resumed exactly once; no
operation on behalf of one connection touches another's socket; the cache finds
the right open file; a client gets a prefix of one response, and all of it if
nothing failed; every response that begins ends; the containers keep what was
put into them.

## 2. The modules

| Module | Models |
|---|---|
| `Server` | the event loop: kernel operations, all completion handlers, both response protothreads, the descriptor table. Composes `FileCache` |
| `Transfer` | one `async_io_sendfile` in numbers of bytes, with short splices and a file that changes |
| `FileCache` | abstract: what the LRU cache promises `async_io_open_file` |
| `LruCache` | the cache pointer by pointer; composes `HashTable` and `LinkedList`; implements `FileCache` |
| `LinkedList` | list operations as functions on a list record with its heap |
| `HashTable` | table operations as functions on an array of entries |
| `HashMap` | a table under any calls, rehash one slot at a time; implements `BoundedMap` |
| `BoundedMap` | abstract: a partial map with room for so many insertions |
| `Queue`, `Allocators` | operations of the queue, and of the pool and bump allocators, as functions |
| `Containers` | a list, a queue, a pool and a bump allocator under any interleaving of calls; implements `Sequence` |
| `Sequence` | abstract: a sequence open at both ends, and a first-in first-out queue |
| `RouteTrie` | the trie of one method: add and find as functions |
| `Listing` | the walk of the public directory into a dynamic array |
| `Router` | the directory is listed, routes are registered, requests dispatched; composes `Listing` and a `RouteTrie` per method |
| `RequestParser` | `request_parse` on a sequence of tokens, and a grammar to compare it with |
| `Receive` | one connection until the verdict on its request; composes `RequestParser` |
| `MC...` | small instances for TLC |
| `ServerProofs` | theorems of `Server`: types and operations; then descriptors, the cache, the ring and what clients receive |
| `LinkedListProofs` | lemmas about the operations of a list, for `LruCacheProofs` and `ContainersProofs` |
| `LruCacheProofs`, `HashMapProofs`, `ContainersProofs`, `TransferProofs`, `ReceiveProofs`, `RouterProofs` | theorems of the module they are named after |

### Server and the code

The kernel side (`Kernel...`) executes operations; each carries the arguments
its `handle_X_submission` prepared, and what it finds depends on what the
descriptor refers to *when it executes*. The server side (`Handle...`) is one
action per completion handler, taking the head of `cq`. A handler runs to its
end, so everything it does until the next `PT_WAIT` is in the same action.

| Variable | Code |
|---|---|
| `fds` | the process's descriptors: free, a client, a file, a pipe, or the standard input (0). Other descriptors that live as long as the process are left out |
| `armed`, `ring`, `cq` | submitted accepts; other submitted operations; completions |
| `buf[c]` | what `request_parse` makes of the bytes received |
| `pipe[c]`, `out[c]` | the pipe of `sendfile`; what the client received |
| `pt[c]` | `recv_context`, `send_file_locals`, `splice_all_context` and the resume label, of the connection `c` |
| `node[n]` | the `file_t` inside a list node of the cache (named by the connection that added it) |
| `map`, `key`, `used`, `churned`, `aborted` | `FileCache` |

| Phase of `pt[c]` | Waits in | Completed by |
|---|---|---|
| `pending` | accepted, completion not handled | `HandleAccept` |
| `recv` | `handle_recv_submission` | `HandleRecv` (dispatch and cache look-up included) |
| `openat`, `statx` | `async_io_open_file` | `HandleOpenat`, `HandleStatx` (cache insertion and eviction included) |
| `send` | `async_io_send_buffer` | `HandleSend` (`pipe2` included) |
| `fill`, `drain` | `async_io_sendfile` | `HandleFill`, `HandleDrain` |
| `close` | `route_callback_send_file` | `HandleClose` |
| `dropped`, `rejected`, `unanswered`, `closed`, `kept` | | ended |

The route `/test` runs the same steps with three differences, marked by
`pt[c].test`. Its `file_t` is not cleared by `cmem_realloc`, so it begins as any
element of `Garbage`; a failed openat leaves, and caches, that descriptor. Its
inner protothreads are held in C variables that are lost when it is resumed
(`main.c:81`, `91`): where it frees them, `Crash` lets the process end
(`aborted`) or go on. And it ends with its client open (`kept`).

Data is abstracted: a request is a verdict of the parser with a method and a
URI class; a file is a label with a length; a header is a length; the bytes of
file `p` are the units `<<p, 1>>, <<p, 2>>, ...`, so that bytes sent twice, out
of order or to the wrong client are seen. `file.ok` and `clean` are history
variables: they record that no operation has failed so far.

`Server` uses `FileCache`, not `LruCache`: which entry is evicted is left open
there, and so is the moment when a hit ends the process (below). That the code's
cache is one of the caches so allowed is proved (`FileCacheRefined`), and the
run `lru` checks it.

### The cache's list

`doubly_linked_list_move_to_front` does not move the tail pointer when it is
the tail that moves. `LruCache` translates that: after a hit on the last
entry, unless a hit on another puts the list right, the next `pop_tail` evicts
the entry just used and cuts the others off the list; the table still finds them; a later hit on one may follow a link to a
freed node. The model marks that (`bad`), and the process ends, as the default
build under AddressSanitizer (`CMakeLists.txt`) does. The run `lru` shows
what follows. Evictions never reach the entries cut off (`CutOffLeaks`): a hit
brings back all but the first of them, whose `prev` is the freed entry; that one
is never freed nor its descriptor closed, while it takes up a place of the cache
for good. Freed memory is only touched by a hit after such a tail hit
(`TouchesOnlyAfterTailHit`). That the table never maps a key to a freed entry
is part of `ImplementsFileCache`.

### The transfer

`Transfer` has the counters of `splice_all_context` as variables: `nbytes` and
`in_pipe`, next to what was `announced` in the header and `sent`. `Fill` and
`Drain` are a splice and its completion handler in one step, since only the file
can change between the two. `Fill` asks for `Asked` bytes in unsigned
arithmetic. `overrun` is history: `nbytes` was taken below zero, which a short
drain followed by a refill makes possible; `Account` and `Complete` say what
holds without that, `OverrunsInFull` what happens with it (some 2^32 bytes too
many are sent before the transfer ends). Where `Server` follows the *contents*
of a transfer among other responses, `Transfer` follows its *amounts* alone, for
all splices and any file.

### Listing and the array

A step of `Listing` is one directory entry. `calls` is the stack of
`recursive_walk`, each with its own copy of the pointer to the array (`darr`);
`arrays` is the heap, in which `Resized` allocates a new array and frees the
old. As in the code, `Leave` returns no pointer and `Returned` is the first
array: from `InitialSize` (8) visible files on, the array has moved and the
process goes on with freed memory, wherever the files are. `process` then is
`dangling`; it is `no_directory` when `openat` of a subdirectory failed, and
`division` when a file is looked for in the table of an empty directory, which
has no slots.

### Containers

`Containers` keeps each container in its own part of the heap. A freed node
holds nothing and touching it sets `bad`. The tail of the list is never moved to
the front here (that is `LruCache`'s subject). Calls that return early change
nothing and are left out. The pool's bits begin as malloc returned them
(`CreatedPools`); `lost` are the bits that were set.

### Routing

A URI is the sequence of its segments, as `sdssplitlen` makes it. A node of the
trie is named by the segments that lead to it, and `nodes` lists all nodes by
age: every `children` array is a subsequence of it. `Descend` keeps two
particularities of `trie_find_handler`: it takes the first child that matches
and never goes back, and at a leaf its inner loop has no turn, so that a route
also takes every longer URI. `FindsFirst` compares the trie with the look-up
done on the list of registered routes. `started` is the sequence of responses
one `router_handle_request` begins; `OneResponse` says when it has two.
`Server` uses the same dispatch (`Target`) for files and a route that
do not overlap.

### Receiving

`Receive` models the string that `handle_recv_submission` and
`handle_recv_completion` pass from one recv to the next. The kernel appends
pieces while a recv is in flight, up to its room; the completion may come after
any piece. Each piece counts for one unit of the limits (1K in the run), which
keeps the relations between `RECV_CHUNK`, `MAX_HEADER_BYTES` and `MAX_REQUEST`.
A token (a line end, say) is never cut in two. `Server` abstracts all this to a
verdict and to recvs that ask for more.

## 3. The runs

| Run | Question | Bounds |
|---|---|---|
| `faults` | Are overlapping responses correct when any operation may fail? | 2 connections, 2 files (one fills a pipe), the route `/test`, header of 2 units sent in one or two parts, 1 accept slot, 9 descriptors, cache of 2: nothing is evicted; symmetric connections |
| `evict` | What survives evictions? | 3 connections, 2 at a time, cache of 1 with a table of 2 slots: every miss after the first evicts, and the third insertion finds the table worn out; symmetric connections |
| `live` | Does every response end, every client get in? | 2 connections, 1 accept slot; the index is longer than a pipe (3 units against 2), fills fall short, openat and drains fail; whole headers, GET of files and of `/test`; 6 descriptors, of which a response leaks two |
| `transfer` | How much does a sendfile send? | lengths 0, 2, 3, 5 and 9 around a pipe of 3 and a `Modulus` of 8; followed until 24 bytes are sent |
| `hashmap` | Is the table a map? | 4 slots, 3 keys with colliding, wrapping probes, 2 values |
| `lru` | Is the cache what the server expects? | 3 entries, 4 keys, 6 nodes, table of 4 slots (3 / 0.67), all keys colliding; symmetric nodes |
| `containers` | Do the containers keep their memory and their order? | 3 list nodes, 4 queue cells, a pool of 3, a bump allocator of 4 bytes at address 2 of 8, at most 5 allocations at a time; symmetric addresses and items |
| `routing` | What is served, and which callback answers which URI? | directories of no, 2 and 5 visible files with a room for 4, with a subdirectory and hidden names; 3 registrations of 5 routes on 2 methods, 2 callbacks, 13 URIs; symmetric callbacks |
| `receive` | Does a connection get the right verdict however its bytes are cut? | pieces of 1K: a chunk and the header limit are 4, `MAX_REQUEST` is 16, four kinds of pieces; after the empty line 2 more tokens |
| `no_answer`, `rejected_open`, `close_fails` | Is this comment true of the code? | 1 connection (3 for `close_fails`); each is violated, see section 6 |

Why these bounds suffice. The hazards are pairwise: two responses on one path,
a response against the eviction of its file, a response against the close or
reuse of a descriptor. Two connections at a time give every such pair, and the
third of `evict` gives a descriptor number its next owner. Two units per pipe
and per header give a full, a partial and an empty transfer. A cache of three
is the least in which a cut-off entry can itself be hit. One table slot fewer
than insertions wears a table out. `Modulus` stands for 2^32; it need only
exceed the pipe's capacity, and a length beyond it is among those of
`transfer`. Two levels of directory give every walk with an outer call that
holds an old pointer.

Bounds named in the modules: `Conns` (connections ever made), `Active` (at a
time), `Requests` (what clients send), `Faulty` and `Shorts` (which operations
may fail or fall short), `Nodes` in `LruCache` (allocations; a run of the cache
ends when they are used up, since the addresses a sanitized allocator returns
are not reused while anything points there), `MaxRoutes`, `MaxSent` in
`Transfer` (no fill after so many bytes), `MaxLive` in `Containers`,
`Pipelined` in `Receive`.

Deadlock is checked in all runs. `Rest` lets the server rest only when nothing
is in flight and nobody waits, or the process has ended.

**Fairness** (`FairSpec`). The loop of `server_run` is `while (true)` around
`async_io_process`: weak fairness of `Handle`. The kernel completes what was
submitted: weak fairness per connection of every operation but `recv`, which
waits for its peer; so a client is assumed to read what it is sent or to
disconnect. A connection waiting in the backlog is accepted when an accept is
armed. No fairness is assumed of failures or of clients that send requests.
`Transfer` assumes the same of its splices, and `Receive` of a client that
keeps sending.

**Restrictions that matter.** They are stated here because properties are
false of the code without them.

- `ServeSound` is checked where nothing is evicted: an eviction does close a
  descriptor other responses still read from.
- `ClientIsolated` is checked with failures *or* evictions: a failed openat
  caches descriptor 0, its eviction closes 0, the next client may be accepted
  on 0, and the eviction of a second such entry closes that client. The theorem
  draws the line more closely (`Sane`, section 5).
- Files are no longer than a pipe (64K in the code) where `InOrder` and
  `Integrity` are checked: the fill is always from offset 0, so a longer file
  is sent from its beginning again. `live` and `transfer` have such files.
- In `Server` a drain sends the whole pipe or fails, and files do not change
  while they are served; `Transfer` drops both restrictions.
- `Ends` excludes a file that stays empty before `nbytes` bytes were read (fill
  and drain then alternate for ever) and a count that wrapped.
- `AllAccepted` is checked where no accept fails while clients wait (`live`):
  each failed accept loses its slot for good.
- `Garbage` is one `file_t` with the number of a descriptor others may use.

## 4. Properties

`Server`: `OneOp` (one operation per waiting protothread), `RingBound` (what is
in flight is accounted for by slots, connections and evictions),
`ClientIsolated`, `CacheSound`, `CachedOnce`, `ServeSound`, `InOrder`,
`Integrity`, `Served` and `AllAccepted` (liveness). `Transfer`: `Account`,
`Complete`, `OverrunsInFull`, `Ends` (liveness). `HashMap`: `Unique`, `Findable`,
`RehashCleans`, refinement of `BoundedMap`. `LruCache`: `ExactBeforeTailHit`,
`CutOffLeaks`, `TouchesOnlyAfterTailHit`, refinement of `FileCache`.
`Containers`: `ListLinked`, `QueueOwned`, `GetRefuses`, `GivenOnce`, refinement
of `Sequence`. `Router`: `FindsFirst`, `OneResponse`, `NeverStolen`, and
`ListsVisible` and `ArraysSound` of `Listing`. `Receive`: `Verdict` (against the
grammar `Request`), `RoomToReceive`, `Decided`. Each is stated in words above
its definition.

Operators named `Bug...` are not part of the models. Each is a plausible
mistake in the definition next to it; PROJECT.json's `mutants` pairs it with
the property that then fails, in the run's own configuration.

## 5. Proofs

TLC checks a property on the instance of a run. The theorems below hold for
every value of the constants that meets the named assumptions. Every invariant
and action property of a passing run, and every refinement, is among them, some
of those of `Server` under a condition that their theorem names; what is left to
TLC is liveness.

Of the inductive invariants that are stronger than the properties of the runs,
TLC was also asked, on the instances of the runs: completely for those of
`Router` (`WalkInv`, `RouterInv`), `HashMap` (`MInv`), `LruCache` (`CInv`, the
set in `Shape` bounded) and `Containers` (`ListInv` and `QueueInv` for the
nodes the pointers lead to), in part for those of `Server`. It found no
violation.

| Assumption | Says | Because |
|---|---|---|
| `ServerAssumption`, `TransferAssumption` | types; positive lengths and capacities; a splice moves fewer than 2^32 bytes | a pipe holds 64K |
| `HashTableAssumption` | a positive size, a number as hash of each key | the empty table is `Listing`'s `division` |
| `LruCacheAssumption` | the same, a positive capacity, a null that is no node | `async_io_create` asks for 16 entries |
| `ContainersAssumption` | a null that is no node and no cell; sizes; the bump allocator ends below the last address; an int and the length of a list are below half a `size_t` | 4 bytes against 8; a node is at least two pointers |
| `ReceiveAssumption` | `MaxHeader <= Chunk`, `2 * Chunk <= MaxRequest` | 4K, 4K, 16K |
| `RouterAssumption` | a positive array size; the files of the public directory are finitely many, lie below its prefix, which is not hidden, and none is a directory; routes and URIs are sequences of segments; a null is no callback; `/` is no file name | `readdir` reports a name as one or the other; a file name has a dot |
| `TokensAssumption` | blanks, line ends and colons are no words; methods and version are | the characters `request.c` looks for |

### The event loop

`ServerProofs` proves `[]TypeOK` and `[]OneOp`: any number of connections,
descriptors and files, any failures and short transfers, with evictions, the
route `/test` and aborts. `OneOp` is
not inductive: to know that the operation a handler submits is the only one of
its task it must be known that the completion it consumed was. The inductive
invariant `IInv` is `Tasks /\ OthersType`. `Tasks` joins `OpsInv` (`QueueOK`:
completions carry results their handlers may use; `PendingOK`: an accept
completion belongs to a connection in phase `pending`, and to no two; and
`OneOp`), the types of the queues, and `PathOK` (a response has a path while it
opens and sends). Each lemma
`XHandled` treats a handler and each `XStep` a kernel operation, one step per
conjunct it can disturb.

From `IInv` the module goes on to who owns a descriptor:
the connection accepted on it, the `openat` that returned it, the cache node
that stores it, or the close of an evicted file. `CInv` relates operations,
protothreads and nodes whatever fails. `GInv` adds that descriptors have one
owner (`Owned`) while the cache is `Sane`:

- `Sane`: nothing has been evicted, or every entry's `openat` and `statx`
  succeeded. Without it an eviction closes a descriptor the cache never owned
  (section 3). The state before the violation is not `Sane`, so the theorems
  say what such a failure costs, and that nothing else can cost it.
- `CacheFindsOpen`: `Sane => CacheSound`. `SocketsIsolated`: `Sane =>
  ClientIsolated`. Both cover evictions, which the run `faults` does not.
- `ResponsesReadTheirFile`: `ServeSound` until the first eviction.
  `FilesCachedOnce`: `CachedOnce` until then, with a table slot for every file
  (`RoomyMap`): a table that is worn out forgets an entry, and the file is
  opened again.
- `RoomyServerSound`: all four, always, if the cache has an entry and the table
  a slot for every public file (`RoomyCache`). That is the server as it ships:
  16 entries and 23 slots, and, by `ArraysSound`, a usable list of at most seven
  files.
- `InFlightBounded`: `[]RingBound`. The accepts in flight and those completed
  but not handled are at most the slots (`RInv`); by `OneOp`, sending an
  operation to its connection is an injection into the waiting ones.

What clients receive is proved from these. `Stage` gives, for each phase of a
task, what its client has received and its pipe holds; `Delivery` says so of
every task, and is inductive while nothing is evicted, since the file a
response reads is then its own. `ResponsesInOrder` and `ResponsesComplete` are
`InOrder` and `Integrity` until the first eviction, `RoomyServerDelivers` both
without that limit for a cache as above. They assume `WholeSplices`: files fit
one splice and no splice is cut short. The assumption is needed: a second fill
reads from offset 0 again.

### The cache and its containers

`HashMapProofs` proves `[]TypeOK`, `[]Unique`, `[]Reachable` (no blank
before a stored key), `[]Findable` and `[]RehashCleans` of `HashMap`, and that
it implements `BoundedMap` (`MapRefined`): for every size, key set and hash
function. The invariant is the conjunction of the type, `NoTwins` and `NoGaps`
for both tables. The two belong together: `hashmap_set` stops at the key or at
a blank slot, so that no key is stored twice because none lies beyond a blank
(`NoGaps`), and none lies beyond a blank because a blank slot is only ever
filled, never made (`hashmap_delete` leaves a tombstone). The arithmetic is in
lemmas about `Slot`: for a given key, the probe sequence visits every slot,
once; so `set` fails only when no slot is blank, which is when the room
`BoundedMap` counts is used up. For a rehash `MInv` adds that the new table
holds what the old one held up to the slot whose turn it is.

`LinkedListProofs` says what the list operations leave: field by field; for
lists linked both ways in a given order (`Ordered`), with the new order; and,
without an order, for lists whose tail `move_to_front` has moved (`Shape`:
pointers between nodes are mutual, and some set of nodes holds the head and
what precedes its members). `ChainIs` is the one induction: following `next`
from the head meets the nodes in their order.

`LruCacheProofs` proves of `LruCache`, for any capacity:

- `CutOffForGood` (`CutOffLeaks`) and `AddsTouchNone`
  (`TouchesOnlyAfterTailHit`). `CInv` counts the nodes whatever happened, keeps
  `Shape` until a freed node is touched, and `Closed` (no pointer dangles)
  until a tail hit *and* an eviction have happened. `Shape` is what makes
  `pop_tail` of a list in two pieces free the right node: a set closed under
  `prev` leads from the tail to a live predecessor. The same set shows that
  what an eviction frees, the tail, is never cut off (`TailNotCutOff`), and
  pointers that are mutual that no hit on another entry changes the `prev` of
  the first one (`GetStrands`).
- `EvictsLeastRecent` (`[]ExactBeforeTailHit`): before a tail hit the list is
  `Ordered` by use.
- `FileCacheRefined` (`ImplementsFileCache`): every `LRU_cache_get` and
  `LRU_cache_add` is a step of `FileCache`. With it the theorems about
  `Server`, which use `FileCache`, hold with this cache in its place.

`ContainersProofs` proves `[]ListLinked`, `[]QueueOwned`, `[]GetRefuses` and
`[]GivenOnce`, and that the list and the queue implement `Sequence`:

- `ListInv`: some order of the nodes is `Ordered`. `ChainIs` makes it the order
  the properties read (`ListNodes`). `GetRefuses` follows: lengths and indices
  are small against a `size_t`, of which `-length - 1` is one of the largest
  values.
- `QueueInv`: some row of nodes, linked from the root to the head, has an item
  each, and these nodes, their items and the items handed out are apart and all
  that is allocated (`Owned`); what was handed out is as it was. `QueueOwned`
  only reads the cells the pointers lead to; that no other cell has a successor
  (`Row`) is what lets a new head end the row. `queue_clear` is a loop: its
  turns exist (`TurnsExist`), each takes the first node and its item away
  (`TurnOwned`), and there are as many turns as cells, which is more than
  enough (`ClearOwned`).
- `ContainersImplementSequence` (`ImplementsSequence`): each step is proved on
  the items of the nodes, in order (`PushStep`, `PopStep`, `MoveStep`;
  `EnqueueStep`, `DequeueStep`, `ReleaseStep`, `ClearStep`), which are the
  variables of `Sequence` (`SeenIs`).
- For the pool the invariant is that the set bits are the blocks in use and the
  blocks lost from the start (`Marks`); for the bump allocator, that the areas
  given out lie apart and below the cursor while nothing has wrapped (`Areas`),
  since a new area starts at the cursor.

### Bytes

`TransferProofs` proves `[]TypeOK`, `[]Account`, `[]Complete` and
`[]OverrunsInFull` of `Transfer`: any lengths, any short splices, any
changes of the file. `Account` is inductive with `TypeOK`: a fill moves to
`in_pipe` what it takes from `nbytes` unless that goes below zero, which is
what `overrun` records, and a drain moves to `sent` what it takes from
`in_pipe`. `Complete` adds that a transfer ends only with both at zero;
`OverrunsInFull`, that after an overrun the same sum is 2^32 larger.

`ReceiveProofs` proves `[]TypeOK`, `[]RoomToReceive`,
`[](alloc = 2 * Chunk)`, `[](length <= MaxRequest)` and `[]Verdict` of
`Receive`. The invariant adds that between two recvs the string is
shorter than `MaxHeader`, since the parser asks for more only then
(`MoreOnlyBelowLimit`); so the room left is at least a chunk and
`sdsMakeRoomFor` has nothing to do. Hence the check against `MAX_REQUEST` in
`async_io.c:165` never succeeds. For `Verdict` (`VerdictRight`) the parser is
shown to accept exactly what the grammar `Request` does, on strings of any
length (`ParserAgrees`), and its verdict not to depend on what follows the first
empty line.

### The router

`RouterProofs` proves `[]ListsVisible` (`ListsEveryFile`) and `[]ArraysSound`
(`FreedWhenFull`), for public directories of any depth and size. The walk is a
stack of calls, and the invariant says what is still to come. A file is awaited
by a call that has yet to read the entry on the way to it. The files listed are
the visible ones nobody awaits (`ListedOK`). That reading an entry takes from
those awaited just the files behind it needs `Nested`: an outer call has read
the entry its inner call is in, so no file is awaited twice. Of the arrays,
`HeapOK` says that the last is the only live one, and that the first is the last
as long as it has room. So the walk can only come upon a freed array when there
are `InitialSize` visible files, and if it ends it then always does, at the
latest when it publishes the first array.

Of the table of routes, `RouterProofs` proves `[]TypeOK` (`RouterTypes`),
`[]FindsFirst` (`FindsFirstMatch`), `[]OneResponse` (`AnswersOnce`) and
`NeverStolen` (`KeepsURIs`), for routes and URIs of any length and any number of
registrations. `FindsFirst` is not inductive: what the search finds for the URIs
says too little about the nodes that the next route will be hung from. The
invariant `RouterInv` describes the trie of each method by the log of its
routes, `TrieOf`:

- `NodesOf`: the nodes are the non-empty beginnings of the registered routes,
  each once, and of two equally far from the root the first has the older
  route. So the children of a node are in the order their routes came.
- `CallbacksOf`: a node has the callback registered last on its route, if any.

`FindsFirst` follows by walking a URI down both ways at once. At each turn the
node where the search is and the routes that `Chosen` has not yet ruled out
agree (`Agrees`): the latter are those that go through the node.
`NeverStolen` compares the search before and after a registration (`KeptHandler`):
new nodes come after the old ones, so it still reaches the node where it stopped,
and goes on from there, or finds another callback there, only if the new route
leads through that node.
`StartedInv` adds that a request is only dispatched once no more routes are
registered, so what was true of its responses stays true.

### What is only model-checked

Liveness (`Served`, `AllAccepted`, `Ends`, `Decided`): fairness and `ENABLED`
are out of the prover's reach.

The loops of the code (`trie_add_route`, `trie_find_handler`, `queue_clear`)
are folds here. What they compute is not proved by induction over their
arguments, for which the prover has no rule, but from the sequence of their
turns (`Turns`, `ClearTurns`), by the least turn at which a claim would fail
(`LeastIs`, `EachTurn`).

## 6. Disagreements found

- `router.c:234` announces a 404 and nothing follows: a request that matches
  nothing is never answered nor its socket closed (`no_answer`).
- `async_io.c:166` says "send 400/431 and close"; neither happens
  (`rejected_open`).
- `async_io.c:318` says close cannot fail; it can (`close_fails`).

Further observations, which no comment contradicts and which the models state
as they are: `README.md:29` names GET as the only method, but `POST /` is
answered with the index and other methods have tries of their own;
`doubly_linked_list_get` refuses every index (`GetRefuses`); from eight visible
public files on, `router_create` works on a freed array (`ArraysSound`); an
empty public directory ends the process at the first request for a file name;
a hit on the last entry of the cache may cause another never to be freed nor
its descriptor closed (`CutOffLeaks`); `/test` never closes its clients; a body
of several fills repeats the beginning of its file.

## 7. Not modelled

- What follows a full submission ring (64): the null entry is written through.
  `RingBound` says only how many operations there can be.
- The response builder: sequential formatting into a string.
- Freeing: `trie_destroy`, `route_destroy`, `router_destroy`,
  `hashmap_destroy`, `LRU_cache_destroy`, `doubly_linked_list_destroy`; the
  server has no way to stop.
- `GPA.c`, which is unfinished; `send_404`, `handle_splice_submission` and its
  completion, which nothing calls.
- Two responses on one descriptor at the level of `Server`: `Router` shows when
  a request starts two; `Server` is run with routes and files that do not
  overlap.
- Strings, logging, timers and network start-up, which hold no control of the
  server's own; `sds` is vendored.
- What the kernel does inside a splice, beyond its effect on file, pipe and
  socket; TCP.

## 8. Plan

Done: `Server` with `FileCache` and the route `/test`; `Transfer`; `HashTable`,
`HashMap`, `BoundedMap`; `LinkedList`, `LruCache`; `Queue`, `Allocators`,
`Containers`, `Sequence`; `RouteTrie`, `Listing`, `Router`; `RequestParser`,
`Receive`; the theorems of section 5.

Next, in order:

1. `Server` with overlapping routes: two responses on one descriptor.
2. The ring as a bounded queue, with the null entry as the end of the process.
