------------------------------ MODULE MCServer ------------------------------
(***************************************************************************)
(* Small instances of Server.  The index fills a pipe exactly, the other   *)
(* file is shorter.                                                        *)
(***************************************************************************)
EXTENDS Server, TLC

CONSTANTS index, other

MCSizes == [p \in Paths |-> IF p = index THEN SpliceMax ELSE 1]
\* The index takes more than one fill of the pipe.
LongSizes == [MCSizes EXCEPT ![index] = 2 * SpliceMax - 1]

Get(u) == [parse |-> 1, method |-> "GET", uri |-> u]
Gets   == {Get(p) : p \in Paths}
Routed == Gets \cup {Get("/test")}
\* One request for each outcome of the dispatch.
Mixed  ==
  { Get(other), Get("/test"), Get("/none"), Nothing,
    [parse |-> 1, method |-> "POST", uri |-> "/"],
    [parse |-> -1, method |-> None, uri |-> None] }

\* A number that may be anyone's descriptor by then.
MCGarbage == {[fd |-> 3, size |-> 1, ok |-> TRUE]}

ConnSymmetry == Permutations(Conns)

=============================================================================
