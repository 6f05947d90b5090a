------------------------------- MODULE Listing --------------------------------
(***************************************************************************)
(* The start of the router: core/util/util.c walks the public directory    *)
(* into an array of core/containers/darray.c, and router_create makes a    *)
(* table of it.  Every call of recursive_walk holds its own copy of the    *)
(* pointer to the array, and darray_add moves an array that it enlarges.   *)
(*                                                                         *)
(* A file is named by its URI, the sequence of the segments between its    *)
(* slashes (the first is empty).                                           *)
(*                                                                         *)
(* Names that begin with Bug are mistakes the neighbouring definition      *)
(* could hold, not the code.                                               *)
(***************************************************************************)
EXTENDS Integers, FiniteSets, SequencesExt

CONSTANTS
  Trees,        \* public directories: the URIs of their regular files
  Base,         \* the URI prefix of the public directory, "/"
  Hidden,       \* names that begin with a dot
  InitialSize   \* elements _list_files makes room for

VARIABLES
  tree,     \* the public directory
  calls,    \* the running calls of recursive_walk, innermost last
  arrays,   \* every array created, by address
  public,   \* rtr->public_directory_hmap
  process   \* "walking", "serving", or what ended it

vars == <<tree, calls, arrays, public, process>>

\* The process is gone: it touched a freed array (what follows is undefined
\* behaviour), followed a null DIR, or divided by zero.
Ends == {"dangling", "no_directory", "division"}

\* The entries of the directory with prefix d; . and .. are hidden names.
Entries(d) == {p[Len(d) + 1] : p \in {q \in tree : IsStrictPrefix(d, q)}}
Call(d, a) == [prefix |-> d, unread |-> Entries(d), darr |-> a]

Init ==
  /\ tree \in Trees
  /\ calls = <<Call(Base, 1)>>
  /\ arrays = <<[size |-> InitialSize, elems |-> <<>>, live |-> TRUE]>>
  /\ public = {}
  /\ process = "walking"

-----------------------------------------------------------------------------
BugFull(a) == Len(a.elems) > a.size
Full(a) == Len(a.elems) + 1 >= a.size

\* darray_resize copies the array to a new address and frees the old one.
Resized(h, a) ==
  Append([h EXCEPT ![a].live = FALSE], [h[a] EXCEPT !.size = 2 * @])

\* darray_add of u to the array at a of h: the arrays, and the new address.
Added(h, a, u) ==
  LET g == IF Full(h[a]) THEN Resized(h, a) ELSE h
      b == IF Full(h[a]) THEN Len(g) ELSE a
  IN [arrays |-> [g EXCEPT ![b].elems = Append(@, u)], darr |-> b]

Top == Last(calls)

\* readdir returns entry e, in whatever order.
Reads(e) == process = "walking" /\ e \in Top.unread
Rest(e) == [calls EXCEPT ![Len(calls)].unread = @ \ {e}]

BugSkips(e) == FALSE
Skips(e) == e \in Hidden

SkipHidden(e) ==
  /\ Reads(e) /\ Skips(e)
  /\ calls' = Rest(e)
  /\ UNCHANGED <<tree, arrays, public, process>>

AddFile(e) ==
  /\ Reads(e) /\ ~Skips(e) /\ Append(Top.prefix, e) \in tree
  /\ LET new == Added(arrays, Top.darr, Append(Top.prefix, e))
     IN IF arrays[Top.darr].live
          THEN /\ arrays' = new.arrays
               /\ calls' = [Rest(e) EXCEPT ![Len(calls)].darr = new.darr]
               /\ UNCHANGED process
          ELSE /\ process' = "dangling"
               /\ UNCHANGED <<calls, arrays>>
  /\ UNCHANGED <<tree, public>>

(* A directory: the walk calls itself, unless openat fails and readdir is  *)
(* given no DIR.                                                           *)
Enter(e) ==
  /\ Reads(e) /\ ~Skips(e) /\ Append(Top.prefix, e) \notin tree
  /\ \/ /\ calls' = Append(Rest(e), Call(Append(Top.prefix, e), Top.darr))
        /\ UNCHANGED process
     \/ process' = "no_directory" /\ UNCHANGED calls
  /\ UNCHANGED <<tree, arrays, public>>

(* The call returns nothing: its caller goes on with the pointer it has.   *)
Leave ==
  /\ process = "walking" /\ Top.unread = {} /\ Len(calls) > 1
  /\ calls' = Front(calls)
  /\ UNCHANGED <<tree, arrays, public, process>>

\* _list_files returns the pointer it got from darray_create.
Returned == arrays[1]

Published == ToSet(Returned.elems)

(* router_create makes a table of the list and destroys the list.          *)
Publish ==
  /\ process = "walking" /\ Top.unread = {} /\ Len(calls) = 1
  /\ IF Returned.live
       THEN public' = Published /\ process' = "serving"
       ELSE process' = "dangling" /\ UNCHANGED public
  /\ calls' = <<>> /\ arrays' = <<>>
  /\ UNCHANGED tree

Walk ==
  \/ \E e \in UNION {ToSet(u) : u \in tree} : SkipHidden(e) \/ AddFile(e) \/ Enter(e)
  \/ Leave \/ Publish

\* A table made for no files has no slots, and hashmap_get divides by their
\* number.
Divides == public = {}

-----------------------------------------------------------------------------
\* The files whose path holds no hidden name.
Visible == {u \in tree : ToSet(u) \cap Hidden = {}}

(* The table a router starts with holds exactly the regular files of the   *)
(* public directory and its subdirectories that are not hidden.            *)
ListsVisible == process = "serving" => public = Visible

(* No element is written beyond an array, and the process goes on with a   *)
(* freed array only if there are as many files as _list_files made room    *)
(* for, whatever directories they are in.  With so many it always does.    *)
ArraysSound ==
  /\ \A a \in DOMAIN arrays : Len(arrays[a].elems) <= arrays[a].size
  /\ process = "dangling" => Cardinality(Visible) >= InitialSize
  /\ process = "serving" => Cardinality(Visible) < InitialSize

=============================================================================
