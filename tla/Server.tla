------------------------------- MODULE Server --------------------------------
(***************************************************************************)
(* The event loop of webserver/src/network: io_uring operations in flight, *)
(* the completion handlers of IO/async_io.c, the file-serving protothread  *)
(* of routing/router.c, the one of the route /test that project/src/main.c *)
(* registers, and the descriptor table they all share.                     *)
(*                                                                         *)
(* One thread runs the handlers, one completion at a time and each to its  *)
(* end; the kernel executes the submitted operations in any order and      *)
(* queues their completions.  A connection c is followed from its accept   *)
(* to the close of its socket: the heap objects the code allocates for it  *)
(* (recv context, protothread, locals) are the record pt[c].               *)
(***************************************************************************)
EXTENDS Integers, Sequences, FiniteSets

CONSTANTS
  Conns,      \* connections the clients ever make (bounds the model)
  Paths,      \* the files of assets/public, as cache labels
  Index,      \* the label of assets/public/index.html
  Test,       \* the label of assets/public/test.html
  Sizes,      \* Sizes[p]: length of file p
  Accepts,    \* accepts armed by server_run
  NumFds,     \* descriptors the process may have open (RLIMIT_NOFILE)
  CacheCap,   \* capacity of the file cache
  MapSlots,   \* slots of its hash table
  HdrLen,     \* length of a serialized response header
  SpliceMax,  \* SPLICE_MAX_SIZE, which is also the capacity of a pipe
  Modulus,    \* number of values of an unsigned int
  Active,     \* clients connected at a time (bounds the model)
  Requests,   \* what the clients may send, as request_parse sees it
  Faulty,     \* kinds of operations that may fail for a reason not modelled
              \* (a "recv" fails when its client has gone)
  Shorts,     \* kinds of operations that may transfer less than asked
  Garbage,    \* what a file_t in memory that is not cleared may hold
  None

Fd == 0..NumFds-1

\* parse is the verdict of request_parse: -1 (bad, or longer than
\* MAX_REQUEST), 0 (unfinished) or 1.
Received == [parse : {-1, 0}, method : {None}, uri : {None}] \cup
            [parse : {1}, method : {"GET", "POST"},
             uri : Paths \cup {"/", "/test", "/none"}]
Nothing  == [parse |-> 0, method |-> None, uri |-> None]

ASSUME ServerAssumption ==
  /\ None \notin Conns \cup Paths
  /\ {Index, Test} \subseteq Paths
  /\ Requests \subseteq Received
  /\ Sizes \in [Paths -> Nat]
  /\ {Accepts, NumFds, CacheCap, HdrLen, SpliceMax, Active}
       \subseteq Nat \ {0}
  /\ MapSlots \in Nat
  /\ Modulus \in Nat /\ Modulus > SpliceMax
  /\ Garbage \subseteq [fd : Fd, size : Nat, ok : {TRUE}]

VARIABLES
  \* The kernel
  fds,      \* what each descriptor refers to
  armed,    \* accept operations in flight
  ring,     \* the other operations in flight
  cq,       \* completions, oldest first
  buf,      \* what request_parse makes of the bytes received so far
  pipe,     \* contents of a response's pipe: the origin of each unit
  out,      \* what the client of a connection has received
  \* The server
  pt,       \* the protothread and contexts of each connection
  node,     \* file_t stored in each node of the file cache
  \* The file cache (module FileCache)
  map, key, used, churned, aborted

kernel == <<fds, armed, ring, cq, buf, pipe, out>>
cache  == <<map, key, used, churned, aborted>>
vars   == <<kernel, pt, node, cache>>

FC == INSTANCE FileCache WITH Keys <- Paths, Nodes <- Conns, Cap <- CacheCap

-----------------------------------------------------------------------------
(* Data.                                                                   *)

\* What a descriptor refers to.  Descriptor 0 is the standard input; the
\* others held for the life of the process are left out of the table.
Free     == [kind |-> "free", of |-> None]
Std      == [kind |-> "std", of |-> None]
Pipe     == [kind |-> "pipe", of |-> None]
ClientOf(c) == [kind |-> "client", of |-> c]
FileOf(p)   == [kind |-> "file", of |-> p]
Desc == {Free, Std, Pipe} \cup {ClientOf(c) : c \in Conns} \cup {FileOf(p) : p \in Paths}

FreeFds == {f \in Fd : fds[f] = Free}
LowestFree(f) == f \in FreeFds /\ \A g \in FreeFds : f <= g

\* file_t: descriptor and stx_size.  ok is history: both the openat and the
\* statx that filled the entry succeeded.
File   == [fd : Fd, size : Nat, ok : BOOLEAN]
NoFile == [fd |-> 0, size |-> 0, ok |-> TRUE]

\* The phases in which a protothread waits are named by the operation.
\* clean is history: no operation of the response has failed.
Waiting == {"recv", "openat", "statx", "send", "fill", "drain", "close"}
Serving == Waiting \ {"recv"}
Phases  == Waiting \cup
           {"none", "pending", "dropped", "rejected", "unanswered", "closed",
            "kept"}

\* test: the protothread is route_callback_test, not route_callback_send_file.
Task == [phase : Phases, client : Fd, path : Paths \cup {None}, file : File,
         test : BOOLEAN,
         left : Int, nbytes : Int, in_pipe : Int,
         piped : BOOLEAN, clean : BOOLEAN]
NoTask == [phase |-> "none", client |-> 0, path |-> None, file |-> NoFile,
           test |-> FALSE, left |-> 0, nbytes |-> 0, in_pipe |-> 0,
           piped |-> FALSE, clean |-> TRUE]

OpKinds == Waiting \cup {"evict"}
Op(k, c, f) == [kind |-> k, id |-> c, fd |-> f]

Least(a, b) == IF a < b THEN a ELSE b

\* The first n units of file p.
Contents(p, n) == [i \in 1..n |-> <<p, i>>]

-----------------------------------------------------------------------------
(* The kernel executes the operation that one of the handle_*_submission   *)
(* functions prepared, on the arguments given there, and posts its         *)
(* completion.  What it finds is what the descriptor refers to by then.    *)

Post(k, c, res) == cq' = Append(cq, [kind |-> k, id |-> c, res |-> res])

Complete(o, res) == ring' = ring \ {o} /\ Post(o.kind, o.id, res)

MayFail(k) == k \in Faulty

KernelAccept(c) ==
  /\ armed > 0
  /\ pt[c].phase = "none"
  /\ Cardinality({d \in Conns : pt[d].phase \in Waiting \cup {"pending"}}) < Active
  /\ \E f \in Fd :
       /\ LowestFree(f)
       /\ fds' = [fds EXCEPT ![f] = ClientOf(c)]
       /\ Post("accept", c, f)
  /\ pt' = [pt EXCEPT ![c].phase = "pending"]
  /\ armed' = armed - 1
  /\ UNCHANGED <<ring, buf, pipe, out, node, cache>>

KernelAcceptFails ==
  /\ armed > 0
  /\ FreeFds = {} \/ MayFail("accept")
  /\ Post("accept", None, -1)
  /\ armed' = armed - 1
  /\ UNCHANGED <<fds, ring, buf, pipe, out, pt, node, cache>>

KernelRecv(o) ==
  /\ o.kind = "recv"
  /\ \/ /\ fds[o.fd].kind = "client"
        /\ \E r \in Requests : buf' = [buf EXCEPT ![o.id] = r]
        /\ Complete(o, 1)
     \/ /\ MayFail("recv")
        /\ Complete(o, 0) /\ UNCHANGED buf    \* end of stream, or an error
  /\ UNCHANGED <<fds, armed, pipe, out, pt, node, cache>>

KernelOpenat(o) ==
  /\ o.kind = "openat"
  /\ \/ \E f \in Fd :
          /\ LowestFree(f)
          /\ fds' = [fds EXCEPT ![f] = FileOf(pt[o.id].path)]
          /\ Complete(o, f)
     \/ /\ FreeFds = {} \/ MayFail("openat")
        /\ Complete(o, -1) /\ UNCHANGED fds
  /\ UNCHANGED <<armed, buf, pipe, out, pt, node, cache>>

(* The size written to statx_buff is carried by the completion.            *)
KernelStatx(o) ==
  /\ o.kind = "statx"
  /\ LET d == fds[o.fd] IN
       \/ /\ d # Free
          /\ Complete(o, IF d.kind = "file" THEN Sizes[d.of] ELSE 0)
       \/ (d = Free \/ MayFail("statx")) /\ Complete(o, -1)
  /\ UNCHANGED <<fds, armed, buf, pipe, out, pt, node, cache>>

KernelSend(o) ==
  /\ o.kind = "send"
  /\ LET d == fds[o.fd]
         left == pt[o.id].left
     IN \/ /\ d.kind = "client"
           /\ \E n \in 1..left :
                /\ n = left \/ "send" \in Shorts
                /\ out' = [out EXCEPT ![d.of].hdr = @ + n,
                                      ![d.of].len = pt[o.id].file.size]
                /\ Complete(o, n)
        \/ /\ d.kind # "client" \/ MayFail("send")
           /\ Complete(o, -1) /\ UNCHANGED out
  /\ UNCHANGED <<fds, armed, buf, pipe, pt, node, cache>>

(* Bytes asked of the file: MIN(nbytes, SPLICE_MAX_SIZE) - in_pipe, as an  *)
(* unsigned int.                                                           *)
FillRequest(t) == (Least(t.nbytes, SpliceMax) - t.in_pipe) % Modulus

(* Fill the pipe from offset 0 of the file.  Only a regular file can be    *)
(* read at an offset, and only a pipe written; asking for nothing succeeds *)
(* on any open descriptor.                                                 *)
KernelFill(o) ==
  /\ o.kind = "fill"
  /\ LET d    == fds[o.fd]
         ask  == FillRequest(pt[o.id])
         room == SpliceMax - Len(pipe[o.id])
         works == d.kind = "file" /\ pt[o.id].piped
     IN \/ /\ works /\ ask > 0 /\ room > 0
           /\ \E n \in 0..Least(Least(ask, Sizes[d.of]), room) :
                /\ \/ n = Least(Least(ask, Sizes[d.of]), room)
                   \/ n > 0 /\ "fill" \in Shorts
                /\ pipe' = [pipe EXCEPT ![o.id] =
                                  @ \o Contents(d.of, n)]
                /\ Complete(o, n)
        \/ /\ d # Free /\ ask = 0
           /\ Complete(o, 0) /\ UNCHANGED pipe
        \/ /\ d = Free \/ (ask > 0 /\ ~works) \/ MayFail("fill")
           /\ Complete(o, -1) /\ UNCHANGED pipe
  /\ UNCHANGED <<fds, armed, buf, out, pt, node, cache>>

(* Drain the pipe into the socket.                                         *)
KernelDrain(o) ==
  /\ o.kind = "drain"
  /\ LET d == fds[o.fd]
         k == Least(pt[o.id].in_pipe, Len(pipe[o.id]))
     IN \/ /\ d.kind = "client"
           /\ \E n \in 0..k :
                /\ n = k \/ (n > 0 /\ "drain" \in Shorts)
                /\ out' = [out EXCEPT ![d.of].body =
                                        @ \o SubSeq(pipe[o.id], 1, n)]
                /\ pipe' = [pipe EXCEPT ![o.id] = SubSeq(@, n + 1, Len(@))]
                /\ Complete(o, n)
        \/ /\ d.kind # "client" \/ MayFail("drain")
           /\ Complete(o, -1) /\ UNCHANGED <<out, pipe>>
  /\ UNCHANGED <<fds, armed, buf, pt, node, cache>>

KernelClose(o) ==
  /\ o.kind \in {"close", "evict"}
  /\ fds' = [fds EXCEPT ![o.fd] = Free]
  /\ Complete(o, IF fds[o.fd] = Free THEN -1 ELSE 0)
  /\ UNCHANGED <<armed, buf, pipe, out, pt, node, cache>>

Kernel(o) ==
  \/ KernelRecv(o)   \/ KernelOpenat(o) \/ KernelStatx(o) \/ KernelSend(o)
  \/ KernelFill(o)   \/ KernelDrain(o)  \/ KernelClose(o)

-----------------------------------------------------------------------------
(* The server handles the oldest completion.  Operators whose names begin  *)
(* with Bug are not the code: each is a mistake its neighbour could hold,  *)
(* and PROJECT.json pairs it with the property that rules it out.          *)

\* PT_WAIT: submit operation k on descriptor f and suspend c as task t.
BugAwait(c, t, k, f) ==
  pt' = [pt EXCEPT ![c] = [t EXCEPT !.phase = k]] /\ UNCHANGED ring
Await(c, t, k, f) ==
  /\ pt' = [pt EXCEPT ![c] = [t EXCEPT !.phase = k]]
  /\ ring' = ring \cup {Op(k, c, f)}

(* handle_accept_completion: a slot whose accept failed is not armed again. *)
BugRearmed(res) == armed
BugRearmedTwice(res) == IF res < 0 THEN armed ELSE armed + 2
Rearmed(res) == IF res < 0 THEN armed ELSE armed + 1

HandleAccept(e) ==
  /\ e.kind = "accept"
  /\ IF e.res < 0
       THEN UNCHANGED <<pt, ring>>
       ELSE Await(e.id, [pt[e.id] EXCEPT !.client = e.res], "recv", e.res)
  /\ armed' = Rearmed(e.res)
  /\ UNCHANGED <<fds, node, cache>>

\* route_callback_send_file once the file is open: send the header.
Responding(t) == [t EXCEPT !.left = HdrLen, !.clean = t.clean /\ t.file.ok]
Respond(c, t) == Await(c, Responding(t), "send", t.client)

\* async_io_open_file begins every entry, also one that resumes it, with a
\* look at the cache, and copies what it finds.
BugFound(t) == t.phase = "recv" /\ FC!Hit(t.path)
Found(t) == FC!Hit(t.path)

BugCopied(t) == [t EXCEPT !.file.fd = node[map[t.path]].fd]
BugNotCopied(t) == t
Copied(t) == [t EXCEPT !.file = node[map[t.path]]]

OpenHit(c, t) ==
  /\ Found(t)
  /\ \/ FC!Get(t.path) /\ Respond(c, Copied(t))
     \/ FC!Abort(t.path) /\ UNCHANGED <<pt, ring>>
  /\ UNCHANGED node

\* The file router_handle_request serves for a request, if any; "/test"
\* stands for the URIs that the route of that name takes.
Tests(r) == r.method = "GET" /\ r.uri = "/test"
Target(r) == IF r.uri = "/" THEN Index
             ELSE IF Tests(r) THEN Test
             ELSE IF r.method = "GET" /\ r.uri \in Paths THEN r.uri
             ELSE None

\* The locals of route_callback_test are not cleared.
Dispatched(t, r, g) ==
  [t EXCEPT !.path = Target(r), !.test = Tests(r),
            !.file = IF Tests(r) THEN g ELSE NoFile]

\* The recv context is freed; neither a response nor a close is submitted.
End(c, how) == pt' = [pt EXCEPT ![c].phase = how] /\ UNCHANGED <<ring, node, cache>>

HandleRecv(e) ==
  /\ e.kind = "recv"
  /\ LET c == e.id
         r == buf[c]
     IN \/ e.res <= 0 /\ End(c, "dropped")
        \/ e.res > 0 /\ r.parse < 0 /\ End(c, "rejected")
        \/ /\ e.res > 0 /\ r.parse = 0
           /\ Await(c, pt[c], "recv", pt[c].client)
           /\ UNCHANGED <<node, cache>>
        \/ e.res > 0 /\ r.parse = 1 /\ Target(r) = None /\ End(c, "unanswered")
        \/ /\ e.res > 0 /\ r.parse = 1 /\ Target(r) # None
           /\ \E g \in Garbage : LET t == Dispatched(pt[c], r, g) IN
                \/ OpenHit(c, t)
                \/ /\ ~Found(t)
                   /\ Await(c, t, "openat", 0)
                   /\ UNCHANGED <<node, cache>>
  /\ UNCHANGED <<fds, armed>>

(* After a failed openat the descriptor is still what the locals held: 0,  *)
(* or garbage.                                                             *)
BugOpened(t, res) == [t EXCEPT !.file.fd = res]
BugOpenedClient(t, res) == [t EXCEPT !.client = res]
Opened(t, res) == IF res < 0 THEN [t EXCEPT !.file.ok = FALSE]
                             ELSE [t EXCEPT !.file.fd = res]

HandleOpenat(e) ==
  /\ e.kind = "openat"
  /\ LET c == e.id
         t == Opened(pt[c], e.res)
     IN \/ OpenHit(c, t)
        \/ /\ ~Found(t)
           /\ Await(c, t, "statx", t.file.fd)
           /\ UNCHANGED <<node, cache>>
  /\ UNCHANGED <<fds, armed>>

BugStated(t, res) == t
Stated(t, res) == IF res < 0 THEN [t EXCEPT !.file.ok = FALSE]
                             ELSE [t EXCEPT !.file.size = res]

\* file_eviction_handler: close the evicted descriptor; nobody waits for it.
BugEvictOps(c, t, v) == {Op("evict", n, t.file.fd) : n \in {v} \ {None}}
EvictOps(c, t, v) == {Op("evict", n, node[n].fd) : n \in {v} \ {None}}

(* The file enters the cache whether or not it could be opened.            *)
HandleStatx(e) ==
  /\ e.kind = "statx"
  /\ LET c == e.id
         t == Stated(pt[c], e.res)
     IN \/ OpenHit(c, t)
        \/ /\ ~Found(t)
           /\ \E v \in Conns \cup {None} :
                /\ FC!Add(t.path, c, v)
                /\ pt' = [pt EXCEPT ![c] = [Responding(t) EXCEPT !.phase = "send"]]
                /\ ring' = ring \cup {Op("send", c, t.client)} \cup EvictOps(c, t, v)
           /\ node' = [node EXCEPT ![c] = t.file]
  /\ UNCHANGED <<fds, armed>>

(* async_io_sendfile: a pipe takes the two lowest free descriptors; if it  *)
(* cannot be had the transfer is attempted all the same.                   *)
Spliced(t, b) == [t EXCEPT !.left = 0, !.nbytes = t.file.size % Modulus,
                           !.in_pipe = 0, !.piped = b, !.clean = t.clean /\ b]

StartSendfile(c, t) ==
  \/ \E f, g \in FreeFds :
       /\ f < g /\ \A h \in FreeFds : h = f \/ h >= g
       /\ fds' = [fds EXCEPT ![f] = Pipe, ![g] = Pipe]
       /\ Await(c, Spliced(t, TRUE), "fill", t.file.fd)
  \/ /\ \A f, g \in FreeFds : f = g
     /\ Await(c, Spliced(t, FALSE), "fill", t.file.fd)
     /\ UNCHANGED fds

(* route_callback_test keeps its two inner protothreads in C variables,    *)
(* which are lost when it is resumed; freeing what those then hold ends    *)
(* the process, or not.                                                    *)
Crash(t) == t.test /\ aborted' = TRUE /\ UNCHANGED <<map, key, used, churned>>

AfterHeader(c, t) ==
  \/ StartSendfile(c, t) /\ UNCHANGED cache
  \/ Crash(t) /\ UNCHANGED <<fds, pt, ring>>

BugHeaderDone(t, res) == TRUE
HeaderDone(t, res) == t.left = res

HandleSend(e) ==
  /\ e.kind = "send"
  /\ LET c == e.id
         t == pt[c]
     IN \/ e.res < 0 /\ AfterHeader(c, [t EXCEPT !.clean = FALSE])
        \/ e.res >= 0 /\ HeaderDone(t, e.res) /\ AfterHeader(c, t)
        \/ /\ e.res >= 0 /\ ~HeaderDone(t, e.res)
           /\ Await(c, [t EXCEPT !.left = @ - e.res], "send", t.client)
           /\ UNCHANGED <<fds, cache>>
  /\ UNCHANGED <<armed, node>>

\* What is left of a protothread that ended.
Ended(t, how) ==
  [NoTask EXCEPT !.phase = how, !.path = t.path, !.test = t.test, !.clean = t.clean]

(* The body is sent: route_callback_send_file closes the client, the route *)
(* /test frees its locals and keeps the client.                            *)
AfterBody(c, t) ==
  \/ ~t.test /\ Await(c, t, "close", t.client) /\ UNCHANGED cache
  \/ /\ t.test /\ pt' = [pt EXCEPT ![c] = Ended(t, "kept")]
     /\ UNCHANGED <<ring, cache>>
  \/ Crash(t) /\ UNCHANGED <<pt, ring>>

(* A failed splice resumes the response just as a finished one does.       *)
BugSpliceFailed(c) == UNCHANGED <<pt, ring, cache>>
SpliceFailed(c) == AfterBody(c, [pt[c] EXCEPT !.clean = FALSE])

Filled(t, n) == [t EXCEPT !.nbytes = (@ - n) % Modulus, !.in_pipe = @ + n]

HandleFill(e) ==
  /\ e.kind = "fill"
  /\ IF e.res < 0
       THEN SpliceFailed(e.id)
       ELSE /\ Await(e.id, Filled(pt[e.id], e.res), "drain", pt[e.id].client)
            /\ UNCHANGED cache
  /\ UNCHANGED <<fds, armed, node>>

HandleDrain(e) ==
  /\ e.kind = "drain"
  /\ LET c == e.id
         t == [pt[c] EXCEPT !.in_pipe = @ - e.res]
     IN \/ e.res < 0 /\ SpliceFailed(c)
        \/ e.res >= 0 /\ t.in_pipe = 0 /\ t.nbytes = 0 /\ AfterBody(c, t)
        \/ /\ e.res >= 0 /\ (t.in_pipe # 0 \/ t.nbytes # 0)
           /\ Await(c, t, "fill", t.file.fd)
           /\ UNCHANGED cache
  /\ UNCHANGED <<fds, armed, node>>

(* The protothread ends and its locals are freed; the pipe stays open.     *)
HandleClose(e) ==
  /\ e.kind = "close"
  /\ pt' = [pt EXCEPT ![e.id] = Ended(pt[e.id], "closed")]
  /\ UNCHANGED <<fds, armed, ring, node, cache>>

HandleEvict(e) ==
  /\ e.kind = "evict"
  /\ UNCHANGED <<fds, armed, ring, pt, node, cache>>

Handle ==
  /\ cq # <<>>
  /\ LET e == Head(cq) IN
       \/ HandleAccept(e) \/ HandleRecv(e) \/ HandleOpenat(e) \/ HandleStatx(e)
       \/ HandleSend(e)   \/ HandleFill(e) \/ HandleDrain(e)
       \/ HandleClose(e)  \/ HandleEvict(e)
  /\ cq' = Tail(cq)
  /\ UNCHANGED <<buf, pipe, out>>

-----------------------------------------------------------------------------
Init ==
  /\ fds = [f \in Fd |-> IF f = 0 THEN Std ELSE Free]
  /\ armed = Accepts
  /\ ring = {}
  /\ cq = <<>>
  /\ buf = [c \in Conns |-> Nothing]
  /\ pipe = [c \in Conns |-> <<>>]
  /\ out = [c \in Conns |-> [hdr |-> 0, len |-> -1, body |-> <<>>]]
  /\ pt = [c \in Conns |-> NoTask]
  /\ node = [c \in Conns |-> NoFile]
  /\ FC!Init

(* Nothing in flight and nobody waiting, or the process is gone: the only  *)
(* states in which the system may rest.                                    *)
Quiet ==
  \/ aborted
  \/ /\ cq = <<>> /\ ring = {}
     /\ armed = 0 \/ \A c \in Conns : pt[c].phase # "none"
     /\ \A c \in Conns : pt[c].phase \notin Waiting

Rest == Quiet /\ UNCHANGED vars

Step ==
  /\ ~aborted
  /\ \/ \E c \in Conns : KernelAccept(c)
     \/ KernelAcceptFails
     \/ \E o \in ring : Kernel(o)
     \/ Handle

Next == Step \/ Rest

Spec == Init /\ [][Next]_vars

(* The loop of server_run never stops handling completions; the kernel     *)
(* completes every operation but a recv, which waits for its peer to speak *)
(* (so a client is assumed to read what it is sent, or to disconnect).     *)
KernelServes(c) ==
  ~aborted /\ \E o \in ring : o.id = c /\ o.kind # "recv" /\ Kernel(o)

Fairness ==
  /\ WF_vars(~aborted /\ Handle)
  /\ \A c \in Conns : WF_vars(KernelServes(c))
  /\ WF_vars(~aborted /\ \E c \in Conns : KernelAccept(c))

FairSpec == Spec /\ Fairness

-----------------------------------------------------------------------------
(* Properties.                                                             *)

\* The completions still to be handled, newest last.
Queued == {cq[i] : i \in 1..Len(cq)}

(* Every variable stays within its type; in particular the size, the       *)
(* descriptor and the counters a handler computes from a completion.       *)
TypeOK ==
  /\ fds \in [Fd -> Desc]
  /\ armed \in Nat
  /\ ring \subseteq [kind : OpKinds, id : Conns, fd : Fd]
  /\ cq \in Seq([kind : OpKinds \cup {"accept"}, id : Conns \cup {None}, res : Int])
  /\ buf \in [Conns -> Received]
  /\ pipe \in [Conns -> Seq(Paths \X Nat)]
  /\ out \in [Conns -> [hdr : Nat, len : Int, body : Seq(Paths \X Nat)]]
  /\ pt \in [Conns -> Task]
  /\ node \in [Conns -> File]
  /\ FC!TypeOK

(* A suspended protothread is resumed exactly once: while connection c     *)
(* waits for an operation there is one such operation, in flight or        *)
(* completed, of the kind it waits for, and otherwise there is none.  So   *)
(* no handler of async_io.c runs a freed protothread and none is forgotten. *)
Awaited(o) == o.kind \notin {"accept", "evict"}
OneOp ==
  /\ \A o \in ring : Awaited(o) => pt[o.id].phase = o.kind
  /\ \A i \in DOMAIN cq : Awaited(cq[i]) => pt[cq[i].id].phase = cq[i].kind
  /\ \A o, q \in ring : Awaited(o) /\ Awaited(q) /\ o.id = q.id => o = q
  /\ \A i, j \in DOMAIN cq :
       Awaited(cq[i]) /\ Awaited(cq[j]) /\ cq[i].id = cq[j].id => i = j
  /\ \A o \in ring : \A i \in DOMAIN cq :
       Awaited(o) /\ Awaited(cq[i]) => o.id # cq[i].id
  /\ \A c \in Conns : pt[c].phase \in Waiting /\ ~aborted =>
       \/ \E o \in ring : Awaited(o) /\ o.id = c
       \/ \E i \in DOMAIN cq : Awaited(cq[i]) /\ cq[i].id = c

(* The descriptor a connection was accepted on still is its socket at      *)
(* every step of its response: no close issued on behalf of another        *)
(* response or of the cache's eviction handler ever hits it.               *)
ClientIsolated ==
  \A c \in Conns : pt[c].phase \in Waiting =>
    \/ fds[pt[c].client] = ClientOf(c)
    \/ \E q \in Queued : q.kind = "close" /\ q.id = c

(* A path the cache finds, if its openat and statx succeeded, is found     *)
(* with an open descriptor of that very file and its length, whatever was  *)
(* evicted, closed and opened again since LRU_cache_add copied the file_t. *)
CacheSound ==
  \A p \in Paths : map[p] # None /\ node[map[p]].ok =>
    /\ fds[node[map[p]].fd] = FileOf(p)
    /\ node[map[p]].size = Sizes[p]

(* No file is in the cache twice: two requests that miss on the same path  *)
(* both open it, and the look-up async_io_open_file repeats on every entry *)
(* keeps the second from adding it again.  (A second node of the same key  *)
(* would unmap the live one when evicted.)                                 *)
CachedOnce ==
  \A m, n \in Conns : key[m] # None /\ key[m] = key[n] => m = n

(* While a response reads its file, the descriptor it copied out of the    *)
(* cache still refers to that file.  It holds where nothing is evicted.    *)
ServeSound ==
  \A c \in Conns : pt[c].phase \in {"send", "fill"} /\ pt[c].file.ok =>
    fds[pt[c].file.fd] = FileOf(pt[c].path)

(* What a client has received is at all times a beginning of the one       *)
(* response it is owed: the header of its file, then that file's bytes in  *)
(* order, nothing of another client's response.                            *)
InOrder ==
  \A c \in Conns : pt[c].clean =>
    /\ out[c].body # <<>> => out[c].hdr = HdrLen
    /\ out[c].body = Contents(pt[c].path, Len(out[c].body))
    /\ out[c].len \in {-1} \cup {Sizes[p] : p \in {pt[c].path} \cap Paths}

(* A response none of whose operations failed is complete when it ends:    *)
(* whole header, the right Content-Length, and that many bytes.            *)
Integrity ==
  \A c \in Conns : pt[c].phase \in {"closed", "kept"} /\ pt[c].clean =>
    /\ out[c].hdr = HdrLen
    /\ out[c].len = Sizes[pt[c].path]
    /\ out[c].body = Contents(pt[c].path, Sizes[pt[c].path])

(* The submission ring has 64 entries and the handlers write through the   *)
(* null that io_uring_get_sqe returns when they are taken.  What is in     *)
(* flight, consumed by the kernel's polling thread or not, is an accept    *)
(* per slot, one operation per waiting connection and the closes of        *)
(* evicted files: no more than 64 with 56 clients and no eviction.         *)
RingBound ==
  armed + Cardinality(ring) <=
    Accepts + Cardinality({c \in Conns : pt[c].phase \in Waiting})
      + Cardinality({o \in ring : o.kind = "evict"})

(* Once a request has been dispatched its response ends, whatever          *)
(* operations fail on the way, and with the socket closed unless it was    *)
(* for the route /test.                                                    *)
Served ==
  \A c \in Conns :
    pt[c].phase \in Serving ~>
      aborted \/ pt[c].phase = (IF pt[c].test THEN "kept" ELSE "closed")

(* Every client is accepted in the end, with fewer slots than clients: a   *)
(* completed accept arms its slot again, whatever the responses before it  *)
(* came to, short of the end of the process.                               *)
AllAccepted == \A c \in Conns : <>(aborted \/ pt[c].phase # "none")

(* router.c:234, "3. Send 404 if you have made it to this point": every    *)
(* complete request is answered with something.                            *)
EveryRequestAnswered ==
  \A c \in Conns : buf[c].parse = 1 ~> out[c].hdr > 0

(* async_io.c:166, "send 400/431 and close": the socket of a request that  *)
(* does not parse is closed.                                               *)
RejectedIsClosed ==
  \A c \in Conns :
    pt[c].phase = "rejected" ~> \A f \in Fd : fds[f] # ClientOf(c)

(* async_io.c:318, "I don't think close can actually fail...".             *)
CloseNeverFails ==
  \A q \in Queued : q.kind \in {"close", "evict"} => q.res >= 0

=============================================================================
