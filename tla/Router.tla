------------------------------- MODULE Router --------------------------------
(***************************************************************************)
(* webserver/src/network/routing/router.c: the public directory is listed  *)
(* (module Listing), routes are registered, then requests are dispatched.  *)
(* started is what router_handle_request has begun for the request at      *)
(* hand, in order; each of these responses sends on, and closes, the same  *)
(* client.                                                                 *)
(***************************************************************************)
EXTENDS RouteTrie, Integers, FiniteSets

CONSTANTS
  Methods,      \* one of which is "GET"
  Routes,       \* the segments of routes that may be registered
  URIs,         \* what a client may ask for
  Trees,        \* what the public directory may contain
  Base,         \* the URI prefix of that directory
  Hidden,       \* segments that begin with a dot
  Dotted,       \* segments that contain one
  InitialSize,  \* elements _list_files makes room for
  Slash,        \* the URI "/"
  Index,        \* the file served for it
  MaxRoutes     \* bounds the model

ASSUME RouterAssumption ==
  /\ InitialSize \in Nat \ {0}
  /\ Base \in Seq(Segments) /\ ToSet(Base) \cap Hidden = {}
  /\ \A t \in Trees :
       /\ t \subseteq Seq(Segments) /\ IsFiniteSet(t)
       \* A regular file of the public directory is no directory.
       /\ \A u \in t : IsStrictPrefix(Base, u) /\ \A v \in t : ~IsStrictPrefix(u, v)
  /\ Routes \subseteq Seq(Segments) /\ URIs \subseteq Seq(Segments)
  /\ None \notin Callbacks \cup Seq(Segments)
  \* "/" is not what looks like a file name.
  /\ ToSet(Slash) \cap Dotted = {}

VARIABLES
  tries,      \* rtr->routing_table, for each method
  started,
  running,    \* the server is running: no more routes are registered
  log,        \* history: the routes registered, oldest first
  tree, calls, arrays, public, process   \* see Listing

table == <<tries, started, running, log>>
start == <<tree, calls, arrays, public, process>>
vars  == <<table, start>>

Dir == INSTANCE Listing

Route == [method : Methods, segments : Routes, callback : Callbacks]

Init ==
  /\ tries = [m \in Methods |-> Created]
  /\ started = <<>>
  /\ running = FALSE
  /\ log = <<>>
  /\ Dir!Init

(* router_create *)
List == Dir!Walk /\ UNCHANGED table

(* router_add_route *)
Register(r) ==
  /\ process = "serving" /\ ~running
  /\ Len(log) < MaxRoutes
  /\ tries' = [tries EXCEPT ![r.method] = AddRoute(@, r.segments, r.callback)]
  /\ log' = Append(log, r)
  /\ UNCHANGED <<started, running, start>>

\* The table of public files is asked for what looks like a file name.
Asks(m, u) == m = "GET" /\ ToSet(u) \cap Dotted # {}

Static(m, u) == IF Asks(m, u) /\ u \in public THEN <<u>> ELSE <<>>

Found(m, u) ==
  LET h == FindHandler(tries[m], u) IN IF h = None THEN <<>> ELSE <<h>>

(* router_handle_request: none of the first two cases returns.             *)
Request(m, u) ==
  /\ process = "serving"
  /\ IF Asks(m, u) /\ Dir!Divides
       THEN process' = "division" /\ UNCHANGED <<started, running>>
       ELSE /\ started' = (IF u = Slash THEN <<Index>> ELSE <<>>)
                            \o Static(m, u) \o Found(m, u)
            /\ running' = TRUE
            /\ UNCHANGED process
  /\ UNCHANGED <<tries, log, tree, calls, arrays, public>>

Gone == process \in Dir!Ends /\ UNCHANGED vars

Next ==
  \/ List
  \/ \E r \in Route : Register(r)
  \/ \E m \in Methods, u \in URIs : Request(m, u)
  \/ Gone

Spec == Init /\ [][Next]_vars

-----------------------------------------------------------------------------
(* Properties.                                                             *)

\* A segment of a route fits one of a URI; a route fits a beginning of u.
Fits(y, x) == y = x \/ y \in Dynamic
Match(s, u) == Len(s) <= Len(u) /\ \A i \in 1..Len(s) : Fits(s[i], u[i])

(* The trie is a tree: no node is created twice, every node's parent       *)
(* exists, and callbacks sit on nodes.                                     *)
TypeOK ==
  /\ \A m \in Methods : LET t == tries[m] IN
       /\ IsInjective(t.nodes)
       /\ \A n \in ToSet(t.nodes) : Front(n) \in {Root} \cup ToSet(t.nodes)
       /\ t.callback \in [{Root} \cup ToSet(t.nodes) -> Callbacks \cup {None}]
  /\ started \in Seq(public \cup {Index} \cup Callbacks)
  /\ running \in BOOLEAN
  /\ log \in Seq(Route)

(* The look-up by the routes alone.  At each segment the candidates still  *)
(* longer decide: the one registered first among those that fit the        *)
(* segment keeps those that agree with it.  (There is no way back: another *)
(* route that matches may be passed over.)                                 *)
Longer(C, d) == {i \in C : Len(log[i].segments) > d}
Narrow(s, x) ==
  LET L == Longer(s.of, s.depth)
      T == {i \in L : Fits(log[i].segments[s.depth + 1], x)}
      f == CHOOSE i \in T : \A j \in T : i <= j
  IN IF L = {} THEN s
     ELSE [depth |-> s.depth + 1,
           of |-> IF T = {} THEN {}
                  ELSE {i \in L : log[i].segments[s.depth + 1] = log[f].segments[s.depth + 1]}]
Chosen(m, u) ==
  LET all == {i \in DOMAIN log : log[i].method = m}
      s == FoldLeft(Narrow, [depth |-> 0, of |-> all], u)
  IN {i \in s.of : Len(log[i].segments) = s.depth}

(* trie_find_handler finds, for every URI, the callback registered last on *)
(* the route that the first match at each segment leads to.                *)
FindsFirst ==
  \A m \in Methods, u \in URIs :
    LET C == Chosen(m, u) IN
      FindHandler(tries[m], u) =
        IF C = {} THEN None ELSE log[CHOOSE i \in C : \A j \in C : j <= i].callback

(* A request starts two responses (which would close its client twice)     *)
(* only if a registered route fits a beginning of a public file's URI or   *)
(* of "/".                                                                 *)
OneResponse ==
  (\A i \in DOMAIN log : \A u \in public \cup {Slash} : ~Match(log[i].segments, u))
    => Len(started) <= 1

(* The table of public files is right and the walk that made it touched no *)
(* memory it should not have: Listing states when.                         *)
ListsVisible == Dir!ListsVisible
ArraysSound == Dir!ArraysSound

(* Registering a route takes a URI away from the callback it was found     *)
(* with only if that callback is replaced, or sat on a leaf that the new   *)
(* route extends.                                                          *)
NeverStolen ==
  [][log' # log => \A m \in Methods, u \in URIs :
       LET h == FindHandler(tries[m], u) IN
         h # None /\ FindHandler(tries'[m], u) # h =>
           /\ m = Last(log').method
           /\ IsPrefix(Walk(tries[m], u), Last(log').segments)]_vars

=============================================================================
