---------------------------- MODULE RouterProofs -----------------------------
(***************************************************************************)
(* The start of the router, for public directories of any depth and number *)
(* of files: the walk loses no file and lists none twice, and goes on with *)
(* a freed array exactly when there are as many files as it made room for. *)
(* Then the route trie, for routes and URIs of any length: what it finds   *)
(* is what the log of the routes says, and so is who answers a request.    *)
(***************************************************************************)
EXTENDS Router, SequenceTheorems, FiniteSetTheorems, TLAPS

-----------------------------------------------------------------------------
(* URIs and directories.                                                   *)

\* u lies, directly or not, in the directory with prefix d.
Below(d, u) == Len(d) < Len(u) /\ \A i \in 1..Len(d) : d[i] = u[i]

(* The prefixes of sequences, element by element.                          *)
LEMMA PrefixIs ==
  ASSUME NEW S, NEW s \in Seq(S), NEW t \in Seq(S)
  PROVE  IsPrefix(s, t) <=> Len(s) <= Len(t) /\ \A i \in 1..Len(s) : s[i] = t[i]
  <1>1. CASE ~(Len(s) <= Len(t))
    BY <1>1 DEF IsPrefix
  <1>2. CASE Len(s) <= Len(t)
    <2> DEFINE a == SubSeq(s, 1, Len(s))  b == SubSeq(t, 1, Len(s))
    <2>1. a \in Seq(S) /\ Len(a) = Len(s) /\ \A i \in 1..Len(s) : a[i] = s[i]
      OBVIOUS
    <2>2. b \in Seq(S) /\ Len(b) = Len(s) /\ \A i \in 1..Len(s) : b[i] = t[i]
      BY <1>2
    <2> HIDE DEF a, b
    <2>3. a = b <=> \A i \in 1..Len(s) : a[i] = b[i]
      BY <2>1, <2>2, SeqEqual
    <2>4. IsPrefix(s, t) <=> a = b
      BY <1>2 DEF IsPrefix, a, b
    <2> QED
      BY <1>2, <2>1, <2>2, <2>3, <2>4
  <1> QED
    BY <1>1, <1>2

LEMMA StrictPrefixIs ==
  ASSUME NEW S, NEW s \in Seq(S), NEW t \in Seq(S)
  PROVE  IsStrictPrefix(s, t) <=> Below(s, t)
  <1>1. IsPrefix(s, t) <=> Len(s) <= Len(t) /\ \A i \in 1..Len(s) : s[i] = t[i]
    BY PrefixIs
  <1>2. Len(s) = Len(t) /\ (\A i \in 1..Len(s) : s[i] = t[i]) => s = t
    BY SeqEqual
  <1>3. Len(s) \in Nat /\ Len(t) \in Nat
    OBVIOUS
  <1> QED
    BY <1>1, <1>2, <1>3 DEF IsStrictPrefix, Below

LEMMA DirPrefix == \A s, t : Dir!IsStrictPrefix(s, t) <=> IsStrictPrefix(s, t)
  BY DEF Dir!IsStrictPrefix, IsStrictPrefix, Dir!IsPrefix, IsPrefix

LEMMA DirSets == \A s : Dir!ToSet(s) = ToSet(s)
  BY DEF Dir!ToSet, ToSet

\* A public directory.
Directory ==
  /\ tree \subseteq Seq(Segments) /\ IsFiniteSet(tree)
  /\ \A u \in tree : Below(Base, u) /\ \A v \in tree : ~Below(u, v)

LEMMA DirectoryIs ==
  ASSUME tree \in Trees
  PROVE  Directory
  <1>1. /\ tree \subseteq Seq(Segments) /\ IsFiniteSet(tree) /\ Base \in Seq(Segments)
        /\ \A u \in tree : IsStrictPrefix(Base, u) /\ \A v \in tree : ~IsStrictPrefix(u, v)
    BY RouterAssumption
  <1>2. \A u \in tree : Below(Base, u)
    BY <1>1, StrictPrefixIs
  <1>3. \A u, v \in tree : ~Below(u, v)
    BY <1>1, StrictPrefixIs
  <1> QED
    BY <1>1, <1>2, <1>3 DEF Directory

LEMMA EntriesAre ==
  ASSUME Directory, NEW d \in Seq(Segments)
  PROVE  /\ Dir!Entries(d) \subseteq Segments
         /\ \A u \in tree : Below(d, u) => u[Len(d) + 1] \in Dir!Entries(d)
  <1>1. \A u \in tree : Dir!IsStrictPrefix(d, u) <=> Below(d, u)
    BY DirPrefix, StrictPrefixIs DEF Directory
  <1>2. \A u \in tree : Below(d, u) => u[Len(d) + 1] \in Segments
    BY DEF Below, Directory
  <1> QED
    BY <1>1, <1>2 DEF Dir!Entries

-----------------------------------------------------------------------------
(* The inductive invariant of the walk.                                    *)

WalkCall == [prefix : Seq(Segments), unread : SUBSET Segments, darr : Nat]
Array == [size : Nat \ {0}, elems : Seq(Seq(Segments)), live : BOOLEAN]

\* Of the calls cs, the c-th still has to read the entry on the way to u.
Awaits(cs, c, u) ==
  Below(cs[c].prefix, u) /\ u[Len(cs[c].prefix) + 1] \in cs[c].unread

\* The files not listed yet.
Pending(cs) == {u \in Dir!Visible : \E c \in 1..Len(cs) : Awaits(cs, c, u)}

Listed == arrays[Len(arrays)].elems

\* A call walks a subdirectory of its caller's, whose entry the caller has read.
Nested(cs) ==
  \A c, d \in 1..Len(cs) : c < d =>
    /\ Below(cs[c].prefix, cs[d].prefix)
    /\ cs[d].prefix[Len(cs[c].prefix) + 1] \notin cs[c].unread

\* Their pointers are to the n arrays made so far.
CallsOK(cs, n) ==
  /\ cs \in Seq(WalkCall) /\ Len(cs) > 0
  /\ \A c \in 1..Len(cs) :
       cs[c].darr \in 1..n /\ ToSet(cs[c].prefix) \cap Hidden = {}
  /\ Nested(cs)

\* Only the last array is live.  A first one that is has room left; a later
\* one was made when the first was full.
HeapOK ==
  /\ arrays \in Seq(Array) /\ Len(arrays) > 0
  /\ \A a \in 1..Len(arrays) :
       /\ arrays[a].live <=> a = Len(arrays)
       /\ Len(arrays[a].elems) <= arrays[a].size
  /\ Len(arrays) = 1 => arrays[1].size = InitialSize /\ Len(Listed) < InitialSize
  /\ Len(arrays) > 1 => Len(Listed) >= InitialSize

ListedOK ==
  /\ ToSet(Listed) = Dir!Visible \ Pending(calls)
  /\ IsFiniteSet(ToSet(Listed)) /\ Cardinality(ToSet(Listed)) = Len(Listed)

WalkInv ==
  /\ tree \in Trees
  /\ arrays = <<>> \/ HeapOK
  /\ process = "walking" => CallsOK(calls, Len(arrays)) /\ HeapOK /\ ListedOK
  /\ process = "dangling" => Cardinality(Dir!Visible) >= InitialSize
  /\ process = "serving" => /\ public = Dir!Visible
                            /\ Cardinality(Dir!Visible) < InitialSize

(* A file not hidden anywhere on its path.                                 *)
LEMMA VisibleIs ==
  /\ Dir!Visible = {u \in tree : ToSet(u) \cap Hidden = {}}
  /\ Directory => IsFiniteSet(Dir!Visible) /\ Cardinality(Dir!Visible) \in Nat
  <1>1. Dir!Visible = {u \in tree : ToSet(u) \cap Hidden = {}}
    BY DirSets DEF Dir!Visible
  <1>2. Directory => IsFiniteSet(Dir!Visible)
    BY <1>1, FS_Subset DEF Directory
  <1> QED
    BY <1>1, <1>2, FS_CardinalityType

LEMMA InitWalk == Init => WalkInv
  <1> SUFFICES ASSUME Init PROVE WalkInv
    OBVIOUS
  <1>1. /\ tree \in Trees /\ calls = <<Dir!Call(Base, 1)>> /\ process = "walking"
        /\ arrays = <<[size |-> InitialSize, elems |-> <<>>, live |-> TRUE]>>
    BY DEF Init, Dir!Init
  <1>2. Directory /\ Base \in Seq(Segments) /\ ToSet(Base) \cap Hidden = {}
    BY <1>1, DirectoryIs, RouterAssumption
  <1> DEFINE k == Dir!Call(Base, 1)
  <1>3. k.prefix = Base /\ k.unread = Dir!Entries(Base) /\ k.darr = 1 /\ k \in WalkCall
    BY <1>2, EntriesAre DEF Dir!Call, WalkCall
  <1>4. Len(calls) = 1 /\ calls[1] = k /\ calls \in Seq(WalkCall)
    BY <1>1, <1>3
  <1> HIDE DEF k
  <1> DEFINE first == [size |-> InitialSize, elems |-> <<>>, live |-> TRUE]
  <1>5. first \in Array /\ first.size = InitialSize /\ first.elems = <<>> /\ first.live
    BY RouterAssumption DEF Array
  <1>6. Len(arrays) = 1 /\ arrays[1] = first /\ arrays \in Seq(Array)
    BY <1>1, <1>5
  <1> HIDE DEF first
  <1>7. HeapOK
    BY <1>5, <1>6, RouterAssumption DEF HeapOK, Listed
  <1>8. CallsOK(calls, Len(arrays))
    BY <1>2, <1>3, <1>4, <1>6 DEF CallsOK, Nested
  <1>9. Pending(calls) = Dir!Visible
    <2>1. \A u \in Dir!Visible : Awaits(calls, 1, u)
      BY <1>2, <1>3, <1>4, EntriesAre, VisibleIs DEF Awaits, Directory
    <2> QED
      BY <1>4, <2>1 DEF Pending
  <1>10. Listed = <<>> /\ ToSet(Listed) = {} /\ Len(Listed) = 0
    BY <1>5, <1>6 DEF Listed, ToSet
  <1>11. ListedOK
    BY <1>9, <1>10, FS_EmptySet DEF ListedOK
  <1> QED
    BY <1>1, <1>7, <1>8, <1>11 DEF WalkInv

-----------------------------------------------------------------------------
(* darray_add.                                                             *)

(* What a walk that may write to a finds afterwards: an array one longer,  *)
(* the last and only live one.                                             *)
Extended(r, u) ==
  LET n == Len(r.arrays) IN
    /\ r.arrays \in Seq(Array) /\ r.darr = n
    /\ r.arrays[n].elems = Append(Listed, u)
    /\ \A a \in 1..n : /\ r.arrays[a].live <=> a = n
                       /\ Len(r.arrays[a].elems) <= r.arrays[a].size
    /\ \/ /\ n = Len(arrays) /\ r.arrays[n].size = arrays[n].size
          /\ Len(Listed) + 1 < arrays[n].size
       \/ /\ n = Len(arrays) + 1
          /\ Len(Listed) + 1 >= arrays[Len(arrays)].size

(* Updates of an array.                                                    *)
LEMMA ArrayFields ==
  ASSUME NEW o \in Array, NEW u \in Seq(Segments)
  PROVE  /\ o.size \in Nat \ {0} /\ o.elems \in Seq(Seq(Segments)) /\ o.live \in BOOLEAN
         /\ LET p == [o EXCEPT !.elems = Append(@, u)] IN
              /\ p \in Array /\ p.elems = Append(o.elems, u)
              /\ p.live = o.live /\ p.size = o.size
         /\ LET p == [o EXCEPT !.live = FALSE] IN
              p \in Array /\ p.elems = o.elems /\ p.live = FALSE /\ p.size = o.size
         /\ LET p == [o EXCEPT !.size = 2 * @] IN
              p \in Array /\ p.elems = o.elems /\ p.live = o.live /\ p.size = 2 * o.size
  <1>1. o.size \in Nat \ {0} /\ o.elems \in Seq(Seq(Segments)) /\ o.live \in BOOLEAN
    BY DEF Array
  <1>2. Append(o.elems, u) \in Seq(Seq(Segments))
    BY <1>1
  <1>3. 2 * o.size \in Nat \ {0}
    BY <1>1
  <1> QED
    BY <1>1, <1>2, <1>3 DEF Array

LEMMA AddedIs ==
  ASSUME HeapOK, NEW u \in Seq(Segments)
  PROVE  Extended(Dir!Added(arrays, Len(arrays), u), u)
  <1> DEFINE k == Len(arrays)
             old == arrays[k]
             r == Dir!Added(arrays, k, u)
  <1>1. /\ arrays \in Seq(Array) /\ k \in Nat \ {0} /\ k \in 1..k /\ Listed = old.elems
        /\ \A a \in 1..k : /\ arrays[a].live <=> a = k
                           /\ Len(arrays[a].elems) <= arrays[a].size
    BY DEF HeapOK, Listed
  <1>2. old \in Array
    BY <1>1
  <1>3. /\ old.live /\ Len(old.elems) <= old.size /\ old.size \in Nat \ {0}
        /\ old.elems \in Seq(Seq(Segments)) /\ Len(old.elems) \in Nat
        /\ Len(Append(old.elems, u)) = Len(old.elems) + 1
    <2>1. old.size \in Nat \ {0} /\ old.elems \in Seq(Seq(Segments))
      BY <1>2, ArrayFields
    <2>2. old.live /\ Len(old.elems) <= old.size
      BY <1>1
    <2> HIDE DEF old
    <2> QED
      BY <2>1, <2>2
  <1>4. Dir!Full(old) <=> Len(old.elems) + 1 >= old.size
    BY DEF Dir!Full
  <1>5. CASE ~Dir!Full(old)
    <2> DEFINE new == [old EXCEPT !.elems = Append(@, u)]
               h == [arrays EXCEPT ![k] = new]
    <2>1. r = [arrays |-> [arrays EXCEPT ![k].elems = Append(@, u)], darr |-> k]
      BY <1>5 DEF Dir!Added
    <2>2. [arrays EXCEPT ![k].elems = Append(@, u)] = h
      OBVIOUS
    <2>3. r.arrays = h /\ r.darr = k
      BY <2>1, <2>2
    <2>4. new \in Array /\ new.elems = Append(old.elems, u) /\ new.live = old.live /\ new.size = old.size
      BY <1>2, ArrayFields
    <2> HIDE DEF new
    <2>5. h \in Seq(Array) /\ Len(h) = k /\ h[k] = new /\ \A a \in 1..k : a # k => h[a] = arrays[a]
      BY <1>1, <2>4
    <2> HIDE DEF h, r, old
    <2>6. ASSUME NEW a \in 1..k
          PROVE  (h[a].live <=> a = k) /\ Len(h[a].elems) <= h[a].size
      <3>1. CASE a = k
        <4>1. Len(new.elems) <= new.size
          BY <1>3, <1>4, <1>5, <2>4
        <4> QED
          BY <3>1, <4>1, <1>3, <2>4, <2>5
      <3>2. CASE a # k
        BY <3>2, <1>1, <2>5
      <3> QED
        BY <3>1, <3>2
    <2>7. Len(Listed) + 1 < old.size
      BY <1>1, <1>3, <1>4, <1>5
    <2> QED
      BY <1>1, <2>3, <2>4, <2>5, <2>6, <2>7 DEF Extended, r, old
  <1>6. CASE Dir!Full(old)
    <2> DEFINE big == [old EXCEPT !.size = 2 * @]
               gone == [old EXCEPT !.live = FALSE]
               freed == [arrays EXCEPT ![k] = gone]
               g == Append(freed, big)
               new == [big EXCEPT !.elems = Append(@, u)]
               h == Append(freed, new)
    <2>1. big \in Array /\ big.size = 2 * old.size /\ big.elems = old.elems /\ big.live = old.live
      BY <1>2, ArrayFields
    <2>2. gone \in Array /\ gone.size = old.size /\ gone.elems = old.elems /\ gone.live = FALSE
      BY <1>2, ArrayFields
    <2>3. [arrays EXCEPT ![k].live = FALSE] = freed
      OBVIOUS
    <2>4. Dir!Resized(arrays, k) = g
      BY <2>3 DEF Dir!Resized
    <2> HIDE DEF big, gone
    <2>5. new \in Array /\ new.elems = Append(old.elems, u) /\ new.live = old.live /\ new.size = 2 * old.size
      <3>1. /\ new \in Array /\ new.elems = Append(big.elems, u)
            /\ new.live = big.live /\ new.size = big.size
        BY <2>1, ArrayFields
      <3> QED
        BY <2>1, <3>1
    <2>6. /\ freed \in Seq(Array) /\ Len(freed) = k /\ freed[k] = gone
          /\ \A a \in 1..k : a # k => freed[a] = arrays[a]
      BY <1>1, <2>2
    <2> HIDE DEF freed
    <2>7. Len(g) = k + 1 /\ g \in Seq(Array) /\ g[k + 1] = big /\ \A a \in 1..k : g[a] = freed[a]
      BY <1>1, <2>1, <2>6
    <2> HIDE DEF g
    <2>8. r = [arrays |-> [g EXCEPT ![Len(g)].elems = Append(@, u)], darr |-> Len(g)]
      BY <1>6, <2>4 DEF Dir!Added
    <2>9. [g EXCEPT ![k + 1].elems = Append(@, u)] = [g EXCEPT ![k + 1] = new]
      BY <2>7
    <2> HIDE DEF new
    <2>10. h \in Seq(Array) /\ Len(h) = k + 1 /\ h[k + 1] = new /\ \A a \in 1..k : h[a] = freed[a]
      BY <1>1, <2>5, <2>6
    <2> HIDE DEF h
    <2> DEFINE f == [g EXCEPT ![k + 1] = new]
    <2>11. f \in Seq(Array) /\ Len(f) = k + 1 /\ f[k + 1] = new /\ \A a \in 1..k : f[a] = g[a]
      BY <1>1, <2>5, <2>7
    <2>12. r.arrays = f /\ r.darr = k + 1
      <3>1. r.arrays = [g EXCEPT ![Len(g)].elems = Append(@, u)] /\ r.darr = Len(g)
        BY <2>8
      <3> HIDE DEF r, k
      <3> QED
        BY <2>7, <2>9, <3>1
    <2> HIDE DEF f, r, old
    <2>13. ASSUME NEW a \in 1..k+1
           PROVE  (f[a].live <=> a = k + 1) /\ Len(f[a].elems) <= f[a].size
      <3>1. CASE a = k + 1
        <4>1. Len(new.elems) <= new.size
          BY <1>3, <2>5
        <4> QED
          BY <3>1, <4>1, <1>3, <2>5, <2>11
      <3>2. CASE a = k
        <4>1. f[a] = gone
          BY <3>2, <1>1, <2>6, <2>7, <2>11
        <4> QED
          BY <3>2, <4>1, <1>1, <1>3, <2>2
      <3>3. CASE a \in 1..k /\ a # k
        <4>1. f[a] = arrays[a] /\ a # k + 1
          BY <3>3, <1>1, <2>6, <2>7, <2>11
        <4> QED
          BY <3>3, <4>1, <1>1
      <3> QED
        BY <1>1, <3>1, <3>2, <3>3
    <2>14. Len(Listed) + 1 >= old.size
      BY <1>1, <1>3, <1>4, <1>6
    <2> QED
      BY <1>1, <1>3, <2>5, <2>11, <2>12, <2>13, <2>14 DEF Extended, r, old
  <1> QED
    BY <1>5, <1>6

-----------------------------------------------------------------------------
(* What is left to read.                                                   *)

\* The innermost of the calls cs reads entry e: what it becomes.
Reading(r, cs, e) ==
  /\ r \in Seq(WalkCall) /\ Len(r) = Len(cs)
  /\ \A c \in 1..Len(cs) :
       /\ r[c].prefix = cs[c].prefix
       /\ r[c].unread = IF c = Len(cs) THEN cs[c].unread \ {e} ELSE cs[c].unread

\* Entry e of the innermost call is on the way to u.
Through(cs, e, u) ==
  LET d == cs[Len(cs)].prefix IN Below(d, u) /\ u[Len(d) + 1] = e

(* The files behind the entry, and no others, have lost the call that      *)
(* awaits them: an outer call has read its entry on the way to them.       *)
LEMMA ReadingIs ==
  ASSUME NEW cs \in Seq(WalkCall), Len(cs) > 0, Nested(cs), NEW e, NEW r, Reading(r, cs, e)
  PROVE  Nested(r) /\ Pending(r) = {u \in Pending(cs) : ~Through(cs, e, u)}
  <1> DEFINE k == Len(cs)
  <1>0. k \in Nat /\ k \in 1..k
    OBVIOUS
  <1>1. Len(r) = k /\ \A c \in 1..k :
          /\ r[c].prefix = cs[c].prefix
          /\ r[c].unread = IF c = k THEN cs[c].unread \ {e} ELSE cs[c].unread
    BY DEF Reading
  <1>2. Nested(r)
    <2> SUFFICES ASSUME NEW c \in 1..k, NEW d \in 1..k, c < d
                 PROVE  /\ Below(r[c].prefix, r[d].prefix)
                        /\ r[d].prefix[Len(r[c].prefix) + 1] \notin r[c].unread
      BY <1>1 DEF Nested
    <2>1. c # k
      BY <1>0
    <2>2. r[c].prefix = cs[c].prefix /\ r[d].prefix = cs[d].prefix /\ r[c].unread = cs[c].unread
      BY <1>1, <2>1
    <2>3. /\ Below(cs[c].prefix, cs[d].prefix)
          /\ cs[d].prefix[Len(cs[c].prefix) + 1] \notin cs[c].unread
      BY DEF Nested
    <2> QED
      BY <2>2, <2>3
  <1>3. ASSUME NEW u, NEW c \in 1..k, Awaits(r, c, u)
        PROVE  Awaits(cs, c, u) /\ ~Through(cs, e, u)
    <2>1. Awaits(cs, c, u)
      BY <1>1, <1>3 DEF Awaits
    <2>2. CASE c = k
      BY <1>1, <1>3, <2>1, <2>2 DEF Awaits, Through
    <2>3. CASE c # k
      <3> DEFINE p == cs[c].prefix  q == cs[k].prefix
      <3>1. Below(p, q) /\ q[Len(p) + 1] \notin cs[c].unread
        BY <1>0, <2>3 DEF Nested
      <3>2. u[Len(p) + 1] \in cs[c].unread
        BY <2>1 DEF Awaits
      <3>3. p \in Seq(Segments) /\ q \in Seq(Segments)
        <4>1. cs[c] \in WalkCall /\ cs[k] \in WalkCall
          BY <1>0
        <4> QED
          BY <4>1 DEF WalkCall
      <3>4. Below(q, u) => u[Len(p) + 1] = q[Len(p) + 1]
        <4>1. Len(p) + 1 \in 1..Len(q)
          BY <3>1, <3>3 DEF Below
        <4> HIDE DEF p, q
        <4> QED
          BY <4>1 DEF Below
      <3>5. Through(cs, e, u) => Below(q, u)
        BY DEF Through
      <3> HIDE DEF p, q
      <3>6. ~Through(cs, e, u)
        BY <3>1, <3>2, <3>4, <3>5
      <3> QED
        BY <2>1, <3>6
    <2> QED
      BY <2>1, <2>2, <2>3
  <1>4. ASSUME NEW u, NEW c \in 1..k, Awaits(cs, c, u), ~Through(cs, e, u)
        PROVE  Awaits(r, c, u)
    BY <1>1, <1>4 DEF Awaits, Through
  <1>5. ASSUME NEW u \in Dir!Visible
        PROVE  u \in Pending(r) <=> u \in Pending(cs) /\ ~Through(cs, e, u)
    BY <1>1, <1>3, <1>4 DEF Pending
  <1> QED
    BY <1>2, <1>5 DEF Pending

(* Rest(e) *)
LEMMA RestIs ==
  ASSUME CallsOK(calls, Len(arrays)), NEW e
  PROVE  /\ Reading(Dir!Rest(e), calls, e)
         /\ \A c \in 1..Len(calls) : Dir!Rest(e)[c].darr = calls[c].darr
  <1> DEFINE k == Len(calls)  t == calls[k]  n == [t EXCEPT !.unread = @ \ {e}]
             r == [calls EXCEPT ![k] = n]
  <1>1. calls \in Seq(WalkCall) /\ k \in Nat /\ k \in 1..k /\ t \in WalkCall
    BY DEF CallsOK
  <1>2. /\ n \in WalkCall /\ n.prefix = t.prefix
        /\ n.unread = t.unread \ {e} /\ n.darr = t.darr
    BY <1>1 DEF WalkCall
  <1>3. Dir!Rest(e) = r
    BY DEF Dir!Rest
  <1> HIDE DEF n
  <1>4. /\ r \in Seq(WalkCall) /\ Len(r) = k
        /\ \A c \in 1..k : r[c] = IF c = k THEN n ELSE calls[c]
    BY <1>1, <1>2
  <1> HIDE DEF r
  <1> QED
    BY <1>1, <1>2, <1>3, <1>4 DEF Reading

LEMMA TopIs ==
  ASSUME CallsOK(calls, Len(arrays))
  PROVE  /\ Dir!Top = calls[Len(calls)] /\ Dir!Top \in WalkCall
         /\ Dir!Top.prefix \in Seq(Segments) /\ Dir!Top.unread \subseteq Segments
         /\ Dir!Top.darr \in 1..Len(arrays) /\ ToSet(Dir!Top.prefix) \cap Hidden = {}
  <1>1. Dir!Top = calls[Len(calls)]
    BY DEF Dir!Top, Dir!Last
  <1>2. Len(calls) \in 1..Len(calls) /\ calls[Len(calls)] \in WalkCall
    BY DEF CallsOK
  <1> QED
    BY <1>1, <1>2 DEF CallsOK, WalkCall

(* A file behind an entry: the file of that name, or one below it.         *)
LEMMA ThroughIs ==
  ASSUME NEW d \in Seq(Segments), NEW e \in Segments, NEW u \in Seq(Segments)
  PROVE  /\ Append(d, e) \in Seq(Segments)
         /\ Below(d, u) /\ u[Len(d) + 1] = e
              <=> u = Append(d, e) \/ Below(Append(d, e), u)
         /\ ToSet(Append(d, e)) = ToSet(d) \cup {e}
  <1> DEFINE f == Append(d, e)
  <1>1. /\ f \in Seq(Segments) /\ Len(f) = Len(d) + 1 /\ f[Len(f)] = e
        /\ \A i \in 1..Len(d) : f[i] = d[i]
        /\ Len(d) \in Nat /\ Len(u) \in Nat
    OBVIOUS
  <1> HIDE DEF f
  <1>2. ASSUME Below(d, u), u[Len(d) + 1] = e
        PROVE  u = f \/ Below(f, u)
    <2>1. Len(f) <= Len(u) /\ \A i \in 1..Len(f) : f[i] = u[i]
      BY <1>1, <1>2 DEF Below
    <2>2. CASE Len(u) = Len(f)
      BY <2>1, <2>2, <1>1, SeqEqual
    <2> QED
      BY <1>1, <2>1, <2>2 DEF Below
  <1>3. u = f => Below(d, u) /\ u[Len(d) + 1] = e
    BY <1>1 DEF Below
  <1>4. Below(f, u) => Below(d, u) /\ u[Len(d) + 1] = e
    <2> SUFFICES ASSUME Below(f, u) PROVE Below(d, u) /\ u[Len(d) + 1] = e
      OBVIOUS
    <2>1. Len(f) < Len(u) /\ \A i \in 1..Len(f) : f[i] = u[i]
      BY DEF Below
    <2>2. Len(d) < Len(u) /\ \A i \in 1..Len(d) : d[i] = u[i]
      BY <1>1, <2>1
    <2> QED
      BY <1>1, <2>1, <2>2 DEF Below
  <1>5. ToSet(f) = ToSet(d) \cup {e}
    <2>1. DOMAIN f = 1..Len(d) + 1 /\ DOMAIN d = 1..Len(d)
      BY <1>1
    <2> QED
      BY <1>1, <2>1 DEF ToSet
  <1> QED
    BY <1>1, <1>2, <1>3, <1>4, <1>5 DEF f

-----------------------------------------------------------------------------
(* The steps of the walk.                                                  *)

LEMMA SameTree ==
  ASSUME tree' = tree
  PROVE  /\ Dir!Visible' = Dir!Visible
         /\ Pending(calls)' = Pending(calls')
  <1>1. Dir!Visible' = Dir!Visible
    BY DEF Dir!Visible, Dir!ToSet
  <1> QED
    BY <1>1 DEF Pending

\* The files awaited stay the same, and so does the array.
LEMMA SameListed ==
  ASSUME ListedOK, tree' = tree, arrays' = arrays, Pending(calls') = Pending(calls)
  PROVE  ListedOK'
  <1>1. Listed' = Listed
    BY DEF Listed
  <1> QED
    BY <1>1, SameTree DEF ListedOK

LEMMA HeapIs ==
  ASSUME HeapOK
  PROVE  /\ Len(arrays) \in Nat /\ Len(arrays) > 0
         /\ Listed \in Seq(Seq(Segments)) /\ Len(Listed) \in Nat
         /\ arrays[1].live => Len(arrays) = 1
  <1>1. arrays \in Seq(Array) /\ Len(arrays) > 0
    BY DEF HeapOK
  <1>2. Len(arrays) \in Nat /\ 1 \in 1..Len(arrays) /\ arrays[Len(arrays)] \in Array
    BY <1>1
  <1>3. Listed \in Seq(Seq(Segments))
    BY <1>2 DEF Listed, Array
  <1>4. arrays[1].live => Len(arrays) = 1
    BY <1>2 DEF HeapOK
  <1> QED
    BY <1>1, <1>2, <1>3, <1>4

(* The walk stays a walk.                                                  *)
LEMMA WalksOn ==
  ASSUME WalkInv, tree' = tree, process' = "walking", CallsOK(calls', Len(arrays')),
         HeapOK', ListedOK'
  PROVE  WalkInv'
  BY DEF WalkInv

(* An entry with a dot in front is passed over: no file behind it is       *)
(* visible.                                                                *)
LEMMA SkipStep ==
  ASSUME WalkInv, NEW e, Dir!SkipHidden(e)
  PROVE  WalkInv'
  <1>1. /\ process = "walking" /\ e \in Dir!Top.unread /\ e \in Hidden
        /\ calls' = Dir!Rest(e)
        /\ tree' = tree /\ arrays' = arrays /\ process' = process
    BY DEF Dir!SkipHidden, Dir!Reads, Dir!Skips
  <1>2. CallsOK(calls, Len(arrays)) /\ HeapOK /\ ListedOK /\ Directory
    BY <1>1, DirectoryIs DEF WalkInv
  <1>3. /\ Reading(calls', calls, e)
        /\ \A c \in 1..Len(calls) : calls'[c].darr = calls[c].darr
    BY <1>1, <1>2, RestIs
  <1>4. Nested(calls') /\ Pending(calls') = {u \in Pending(calls) : ~Through(calls, e, u)}
    BY <1>2, <1>3, ReadingIs DEF CallsOK
  <1>5. CallsOK(calls', Len(arrays'))
    BY <1>1, <1>2, <1>3, <1>4 DEF CallsOK, Reading
  <1>6. \A u \in Pending(calls) : ~Through(calls, e, u)
    <2> SUFFICES ASSUME NEW u \in Pending(calls), Through(calls, e, u) PROVE FALSE
      OBVIOUS
    <2>1. u \in Seq(Segments) /\ ToSet(u) \cap Hidden = {}
      BY <1>2, VisibleIs DEF Pending, Directory
    <2> DEFINE d == calls[Len(calls)].prefix
    <2>2. d \in Seq(Segments)
      BY <1>2, TopIs
    <2>3. Len(d) < Len(u) /\ u[Len(d) + 1] = e
      BY DEF Through, Below
    <2> HIDE DEF d
    <2>4. Len(d) + 1 \in DOMAIN u
      BY <2>1, <2>2, <2>3
    <2> QED
      BY <1>1, <2>1, <2>3, <2>4 DEF ToSet
  <1>7. Pending(calls') = Pending(calls)
    BY <1>4, <1>6
  <1>8. ListedOK' /\ HeapOK'
    BY <1>1, <1>2, <1>7, SameListed DEF HeapOK, Listed
  <1> QED
    BY <1>1, <1>5, <1>8, WalksOn

(* Entering a directory puts the new call in charge of what is in it.      *)
LEMMA EnterStep ==
  ASSUME WalkInv, NEW e, Dir!Enter(e)
  PROVE  WalkInv'
  <1> DEFINE t == Dir!Top  d == Append(t.prefix, e)  r == Dir!Rest(e)
             n == Dir!Call(d, t.darr)  k == Len(calls)
  <1>1. /\ process = "walking" /\ e \in t.unread /\ e \notin Hidden /\ d \notin tree
        /\ tree' = tree /\ arrays' = arrays
        /\ \/ calls' = Append(r, n) /\ process' = process
           \/ process' = "no_directory"
    BY DEF Dir!Enter, Dir!Reads, Dir!Skips
  <1>2. CallsOK(calls, Len(arrays)) /\ HeapOK /\ ListedOK /\ Directory
    BY <1>1, DirectoryIs DEF WalkInv
  <1>3. CASE process' = "no_directory"
    BY <1>1, <1>2, <1>3 DEF WalkInv, HeapOK, Listed
  <1>4. CASE calls' = Append(r, n) /\ process' = process
    <2>1. /\ Reading(r, calls, e)
          /\ \A c \in 1..k : r[c].darr = calls[c].darr
      BY <1>2, RestIs
    <2>2. Nested(r) /\ Pending(r) = {u \in Pending(calls) : ~Through(calls, e, u)}
      BY <1>2, <2>1, ReadingIs DEF CallsOK
    <2>3. /\ t = calls[k] /\ t.prefix \in Seq(Segments) /\ e \in Segments
          /\ t.darr \in 1..Len(arrays) /\ ToSet(t.prefix) \cap Hidden = {}
      BY <1>1, <1>2, TopIs
    <2>4. d \in Seq(Segments) /\ ToSet(d) \cap Hidden = {}
      BY <1>1, <2>3, ThroughIs
    <2>5. /\ n \in WalkCall /\ n.prefix = d /\ n.darr = t.darr
          /\ n.unread = Dir!Entries(d)
      <3> HIDE DEF d, t
      <3>1. Dir!Entries(d) \subseteq Segments
        BY <1>2, <2>4, EntriesAre
      <3>2. t.darr \in Nat
        BY <2>3
      <3> QED
        BY <2>3, <2>4, <3>1, <3>2 DEF Dir!Call, WalkCall
    <2>6. /\ k \in Nat /\ k \in 1..k /\ Len(r) = k /\ r \in Seq(WalkCall)
          /\ \A c \in 1..k : /\ r[c].prefix = calls[c].prefix
                             /\ r[c].unread = IF c = k THEN calls[c].unread \ {e}
                                              ELSE calls[c].unread
      <3>1. k \in Nat /\ k \in 1..k
        BY <1>2 DEF CallsOK
      <3> HIDE DEF r
      <3> QED
        BY <2>1, <3>1 DEF Reading
    <2> DEFINE s == Append(r, n)
    <2> HIDE DEF r, n
    <2>7. /\ s \in Seq(WalkCall) /\ Len(s) = k + 1 /\ s[k + 1] = n
          /\ \A c \in 1..k : s[c] = r[c]
      BY <2>5, <2>6
    <2> HIDE DEF s
    <2>8. \A c \in 1..k : /\ Below(r[c].prefix, d)
                          /\ d[Len(r[c].prefix) + 1] \notin r[c].unread
      <3> TAKE c \in 1..k
      <3> DEFINE p == r[c].prefix  q == t.prefix
      <3> HIDE DEF t
      <3>1. p \in Seq(Segments) /\ Len(d) = Len(q) + 1 /\ Len(q) \in Nat
            /\ d[Len(q) + 1] = e /\ \A i \in 1..Len(q) : d[i] = q[i]
        <4>1. r[c] \in WalkCall
          BY <2>6
        <4> QED
          BY <2>3, <4>1 DEF WalkCall
      <3>2. CASE c = k
        <4>1. p = q /\ r[c].unread = t.unread \ {e}
          BY <2>3, <2>6, <3>2
        <4> HIDE DEF p, q, d
        <4> QED
          BY <3>1, <4>1 DEF Below, p
      <3>3. CASE c # k
        <4>1. Below(p, q) /\ q[Len(p) + 1] \notin r[c].unread
          <5>1. c < k /\ c \in 1..Len(r) /\ k \in 1..Len(r)
            BY <2>6, <3>3
          <5>2. Below(r[c].prefix, r[k].prefix) /\ r[k].prefix[Len(r[c].prefix) + 1] \notin r[c].unread
            BY <2>2, <5>1 DEF Nested
          <5>3. r[k].prefix = t.prefix
            BY <2>3, <2>6
          <5> QED
            BY <5>2, <5>3
        <4> HIDE DEF p, q, d
        <4>2. Len(p) < Len(q) /\ \A i \in 1..Len(p) : p[i] = q[i]
          BY <4>1 DEF Below
        <4>3. Below(p, d) /\ d[Len(p) + 1] = q[Len(p) + 1]
          BY <3>1, <4>2 DEF Below
        <4> QED
          BY <4>1, <4>3 DEF p
      <3> QED
        BY <3>2, <3>3
    <2>9. Nested(s)
      <3> SUFFICES ASSUME NEW c \in 1..k+1, NEW b \in 1..k+1, c < b
                   PROVE  /\ Below(s[c].prefix, s[b].prefix)
                          /\ s[b].prefix[Len(s[c].prefix) + 1] \notin s[c].unread
        BY <2>7 DEF Nested
      <3>1. CASE b = k + 1
        <4>1. c \in 1..k
          BY <2>6, <3>1
        <4>2. s[c] = r[c] /\ s[b].prefix = d
          BY <2>5, <2>7, <3>1, <4>1
        <4> HIDE DEF d
        <4> QED
          BY <2>8, <4>1, <4>2
      <3>2. CASE b # k + 1
        <4>1. c \in 1..k /\ b \in 1..k /\ Len(r) = k
          BY <2>6, <3>2
        <4>2. s[c] = r[c] /\ s[b] = r[b]
          BY <2>7, <4>1
        <4> QED
          BY <2>2, <4>1, <4>2 DEF Nested
      <3> QED
        BY <3>1, <3>2
    <2>10. CallsOK(s, Len(arrays))
      <3>1. ASSUME NEW c \in 1..k+1
            PROVE  s[c].darr \in 1..Len(arrays) /\ ToSet(s[c].prefix) \cap Hidden = {}
        <4>1. CASE c = k + 1
          BY <2>3, <2>4, <2>5, <2>7, <4>1
        <4>2. CASE c \in 1..k
          BY <1>2, <2>1, <2>6, <2>7, <4>2 DEF CallsOK
        <4> QED
          BY <2>6, <4>1, <4>2
      <3> QED
        BY <2>6, <2>7, <2>9, <3>1 DEF CallsOK
    <2>11. ASSUME NEW u \in Dir!Visible
           PROVE  u \in Pending(s) <=> u \in Pending(calls)
      <3>0. u \in tree /\ u \in Seq(Segments)
        BY <1>2, VisibleIs DEF Directory
      <3>1. u \in Pending(s) <=> u \in Pending(r) \/ Awaits(s, k + 1, u)
        <4>1. 1..Len(s) = 1..k \cup {k + 1}
          BY <2>6, <2>7
        <4>2. \A c \in 1..k : Awaits(s, c, u) <=> Awaits(r, c, u)
          BY <2>7 DEF Awaits
        <4> QED
          BY <2>6, <4>1, <4>2 DEF Pending
      <3>2. Awaits(s, k + 1, u) <=> Below(d, u)
        <4>1. Below(d, u) => u[Len(d) + 1] \in Dir!Entries(d)
          BY <1>2, <2>4, <3>0, EntriesAre
        <4> HIDE DEF d
        <4> QED
          BY <2>5, <2>7, <4>1 DEF Awaits
      <3>3. Through(calls, e, u) <=> Below(d, u)
        BY <1>1, <2>3, <3>0, ThroughIs DEF Through
      <3>4. Through(calls, e, u) => u \in Pending(calls)
        BY <1>1, <2>3, <2>6 DEF Through, Pending, Awaits
      <3> QED
        BY <2>2, <3>1, <3>2, <3>3, <3>4
    <2>12. Pending(s) = Pending(calls)
      BY <2>11 DEF Pending
    <2>13. calls' = s /\ process' = "walking"
      BY <1>1, <1>4 DEF s, r, n
    <2>14. ListedOK' /\ HeapOK' /\ CallsOK(calls', Len(arrays'))
      BY <1>1, <1>2, <2>10, <2>12, <2>13, SameListed DEF HeapOK, Listed
    <2> QED
      BY <1>1, <2>13, <2>14, WalksOn
  <1> QED
    BY <1>1, <1>3, <1>4

(* A call returns when it has read everything: nothing awaits it.          *)
LEMMA LeaveStep ==
  ASSUME WalkInv, Dir!Leave
  PROVE  WalkInv'
  <1> DEFINE k == Len(calls)  r == SubSeq(calls, 1, k - 1)
  <1>1. /\ process = "walking" /\ Dir!Top.unread = {} /\ k > 1 /\ calls' = r
        /\ tree' = tree /\ arrays' = arrays /\ process' = process
    BY DEF Dir!Leave, Dir!Front
  <1>2. CallsOK(calls, Len(arrays)) /\ HeapOK /\ ListedOK
    BY <1>1 DEF WalkInv
  <1>3. calls \in Seq(WalkCall) /\ k \in Nat
    BY <1>2 DEF CallsOK
  <1>4. r \in Seq(WalkCall) /\ Len(r) = k - 1 /\ \A c \in 1..k-1 : r[c] = calls[c]
    BY <1>1, <1>3
  <1> HIDE DEF r
  <1>5. Nested(r)
    <2> SUFFICES ASSUME NEW c \in 1..k-1, NEW d \in 1..k-1, c < d
                 PROVE  /\ Below(r[c].prefix, r[d].prefix)
                        /\ r[d].prefix[Len(r[c].prefix) + 1] \notin r[c].unread
      BY <1>4 DEF Nested
    <2>1. c \in 1..k /\ d \in 1..k /\ r[c] = calls[c] /\ r[d] = calls[d]
      BY <1>3, <1>4
    <2> QED
      BY <1>2, <2>1 DEF CallsOK, Nested
  <1>6. CallsOK(r, Len(arrays))
    <2>1. \A c \in 1..k-1 : c \in 1..k
      BY <1>3
    <2> QED
      BY <1>1, <1>2, <1>3, <1>4, <1>5, <2>1 DEF CallsOK
  <1>7. Pending(r) = Pending(calls)
    <2>1. 1..k = 1..k-1 \cup {k}
      BY <1>1, <1>3
    <2>2. calls[k].unread = {}
      BY <1>1, <1>2, TopIs
    <2>3. \A u : ~Awaits(calls, k, u)
      BY <2>2 DEF Awaits
    <2>4. \A u : \A c \in 1..k-1 : Awaits(r, c, u) <=> Awaits(calls, c, u)
      BY <1>4 DEF Awaits
    <2>5. ASSUME NEW u \in Dir!Visible
          PROVE  (\E c \in 1..Len(r) : Awaits(r, c, u)) <=> \E c \in 1..k : Awaits(calls, c, u)
      BY <1>4, <2>1, <2>3, <2>4
    <2> QED
      BY <2>5 DEF Pending
  <1>8. ListedOK' /\ HeapOK' /\ CallsOK(calls', Len(arrays'))
    BY <1>1, <1>2, <1>6, <1>7, SameListed DEF HeapOK, Listed
  <1> QED
    BY <1>1, <1>8, WalksOn

(* A walk that finds its array freed has listed as many files as the first *)
(* array had room for.                                                     *)
LEMMA FullListing ==
  ASSUME HeapOK, ListedOK, Directory, Len(arrays) # 1
  PROVE  Cardinality(Dir!Visible) >= InitialSize
  <1>1. Len(Listed) >= InitialSize
    <2> DEFINE m == Len(arrays)
    <2>1. m \in Nat /\ m > 0 /\ m # 1
      BY HeapIs
    <2> HIDE DEF m
    <2>2. m > 1
      BY <2>1
    <2> QED
      BY <2>2 DEF HeapOK, m
  <1>2. IsFiniteSet(Dir!Visible) /\ Cardinality(Dir!Visible) \in Nat
    BY VisibleIs
  <1>3. ToSet(Listed) \subseteq Dir!Visible /\ Cardinality(ToSet(Listed)) = Len(Listed)
    BY DEF ListedOK
  <1>4. Cardinality(ToSet(Listed)) <= Cardinality(Dir!Visible)
    BY <1>2, <1>3, FS_Subset
  <1> QED
    BY <1>1, <1>2, <1>3, <1>4, RouterAssumption

(* A file is added to the array once, and was awaited until then.          *)
LEMMA AddStep ==
  ASSUME WalkInv, NEW e, Dir!AddFile(e)
  PROVE  WalkInv'
  <1> DEFINE t == Dir!Top  u == Append(t.prefix, e)  r == Dir!Rest(e)
             new == Dir!Added(arrays, t.darr, u)  k == Len(calls)
             s == [r EXCEPT ![k].darr = new.darr]
  <1>1. /\ process = "walking" /\ e \in t.unread /\ e \notin Hidden /\ u \in tree
        /\ tree' = tree
        /\ IF arrays[t.darr].live
             THEN arrays' = new.arrays /\ calls' = s /\ process' = process
             ELSE process' = "dangling" /\ calls' = calls /\ arrays' = arrays
    BY DEF Dir!AddFile, Dir!Reads, Dir!Skips
  <1>2. CallsOK(calls, Len(arrays)) /\ HeapOK /\ ListedOK /\ Directory /\ tree \in Trees
    BY <1>1, DirectoryIs DEF WalkInv
  <1>3. /\ t = calls[k] /\ t.prefix \in Seq(Segments) /\ e \in Segments
        /\ t.darr \in 1..Len(arrays) /\ ToSet(t.prefix) \cap Hidden = {}
    BY <1>1, <1>2, TopIs
  <1>4. CASE ~arrays[t.darr].live
    <2>1. Len(arrays) # 1
      BY <1>2, <1>3, <1>4 DEF HeapOK
    <2>2. Cardinality(Dir!Visible) >= InitialSize
      BY <1>2, <2>1, FullListing
    <2>3. process' = "dangling" /\ arrays' = arrays /\ Dir!Visible' = Dir!Visible
      BY <1>1, <1>4, SameTree
    <2> QED
      BY <1>1, <1>2, <2>2, <2>3 DEF WalkInv, HeapOK, Listed
  <1>5. CASE arrays[t.darr].live
    <2> DEFINE n == Len(new.arrays)
    <2>1. t.darr = Len(arrays) /\ Len(arrays) \in Nat /\ Len(arrays) > 0
      BY <1>2, <1>3, <1>5 DEF HeapOK
    <2>2. u \in Seq(Segments) /\ ToSet(u) \cap Hidden = {}
      BY <1>1, <1>3, ThroughIs
    <2>3. Extended(new, u)
      <3> HIDE DEF u
      <3> QED
        BY <1>2, <2>1, <2>2, AddedIs
    <2>4. arrays' = new.arrays /\ calls' = s /\ process' = "walking" /\ tree' = tree
      BY <1>1, <1>5
    <2>5. u \in Dir!Visible
      BY <1>1, <2>2, VisibleIs
    <2> HIDE DEF new
    <2>6. /\ new.darr = n /\ n \in Nat /\ n >= Len(arrays)
          /\ new.arrays \in Seq(Array)
          /\ new.arrays[n].elems = Append(Listed, u)
      BY <2>1, <2>3 DEF Extended
    \* The calls.
    <2>7. /\ Reading(r, calls, e)
          /\ \A c \in 1..k : r[c].darr = calls[c].darr
      BY <1>2, RestIs
    <2>8. r \in Seq(WalkCall) /\ Len(r) = k /\ k \in 1..k
      BY <1>2, <2>7 DEF CallsOK, Reading
    <2>9. Reading(s, calls, e) /\ \A c \in 1..k : s[c].darr = IF c = k THEN n ELSE calls[c].darr
      <3> DEFINE a == [r[k] EXCEPT !.darr = n]  b == [r EXCEPT ![k] = a]
      <3>1. s = b
        BY <2>6
      <3>2. a \in WalkCall /\ a.darr = n /\ a.prefix = r[k].prefix /\ a.unread = r[k].unread
        <4>1. r[k] \in WalkCall
          BY <2>8
        <4> HIDE DEF r, n
        <4> QED
          BY <2>6, <4>1 DEF WalkCall
      <3> HIDE DEF a, r
      <3>3. b \in Seq(WalkCall) /\ Len(b) = k /\ \A c \in 1..k : b[c] = IF c = k THEN a ELSE r[c]
        BY <2>8, <3>2
      <3> HIDE DEF b
      <3>4. /\ Len(calls) = k
            /\ \A c \in 1..k : b[c].prefix = r[c].prefix /\ b[c].unread = r[c].unread
        BY <3>2, <3>3
      <3>5. Reading(b, calls, e)
        BY <2>7, <3>3, <3>4 DEF Reading
      <3>6. \A c \in 1..k : b[c].darr = IF c = k THEN n ELSE calls[c].darr
        BY <2>7, <3>2, <3>3
      <3> HIDE DEF k, n, s
      <3> QED
        BY <3>1, <3>5, <3>6
    <2> HIDE DEF s
    <2>10. Nested(s) /\ Pending(s) = {v \in Pending(calls) : ~Through(calls, e, v)}
      BY <1>2, <2>9, ReadingIs DEF CallsOK
    <2>11. CallsOK(s, n)
      <3>1. Len(s) = k /\ s \in Seq(WalkCall) /\ \A c \in 1..k : s[c].prefix = calls[c].prefix
        BY <2>9 DEF Reading
      <3>2. \A c \in 1..k : s[c].darr \in 1..n
        <4> SUFFICES ASSUME NEW c \in 1..k PROVE s[c].darr \in 1..n
          OBVIOUS
        <4>1. s[c].darr = IF c = k THEN n ELSE calls[c].darr
          BY <2>9
        <4>2. calls[c].darr \in 1..Len(arrays)
          BY <1>2 DEF CallsOK
        <4> HIDE DEF k, n
        <4> QED
          BY <2>1, <2>6, <4>1, <4>2
      <3> QED
        BY <1>2, <2>10, <3>1, <3>2 DEF CallsOK
    \* The files awaited.
    <2>12. u \in Pending(calls)
      <3>1. Through(calls, e, u)
        BY <1>3, <2>2, ThroughIs DEF Through
      <3> QED
        BY <1>1, <1>3, <2>5, <2>8, <3>1 DEF Through, Pending, Awaits
    <2>13. ASSUME NEW v \in Dir!Visible
           PROVE  Through(calls, e, v) <=> v = u
      <3>1. v \in tree /\ v \in Seq(Segments)
        BY <1>2, VisibleIs DEF Directory
      <3>2. Through(calls, e, v) <=> v = u \/ Below(u, v)
        <4> DEFINE d == t.prefix
        <4>1. Below(d, v) /\ v[Len(d) + 1] = e <=> v = u \/ Below(u, v)
          BY <1>3, <3>1, ThroughIs DEF u
        <4> QED
          BY <1>3, <4>1 DEF Through
      <3>3. ~Below(u, v)
        BY <1>1, <1>2, <3>1 DEF Directory
      <3> QED
        BY <3>2, <3>3
    <2>14. Pending(s) = Pending(calls) \ {u}
      <3>1. Pending(calls) \subseteq Dir!Visible
        BY DEF Pending
      <3> QED
        BY <2>10, <2>13, <3>1
    \* The files listed.
    <2> HIDE DEF u, n
    <2>15. Listed' = Append(Listed, u)
      BY <2>4, <2>6 DEF Listed, n
    <2>16. Listed \in Seq(Seq(Segments)) /\ Len(Listed) \in Nat
      BY <1>2, HeapIs
    <2>17. Len(Listed') = Len(Listed) + 1 /\ ToSet(Listed') = ToSet(Listed) \cup {u}
      <3> DEFINE f == Append(Listed, u)
      <3>1. /\ Len(f) = Len(Listed) + 1 /\ f[Len(f)] = u
            /\ \A i \in 1..Len(Listed) : f[i] = Listed[i]
            /\ DOMAIN f = 1..Len(Listed) + 1 /\ DOMAIN Listed = 1..Len(Listed)
        BY <2>2, <2>16
      <3> HIDE DEF f
      <3> DEFINE l == Listed  j == Len(l)
      <3>2. j \in Nat /\ DOMAIN f = 1..j \cup {j + 1} /\ f[j + 1] = u
        BY <2>16, <3>1
      <3> HIDE DEF l, j
      <3>3. ToSet(f) = ToSet(Listed) \cup {u}
        BY <3>1, <3>2 DEF ToSet, l, j
      <3> QED
        BY <2>15, <3>1, <3>3 DEF f
    <2>18. ListedOK'
      <3>1. /\ ToSet(Listed) = Dir!Visible \ Pending(calls)
            /\ IsFiniteSet(ToSet(Listed)) /\ Cardinality(ToSet(Listed)) = Len(Listed)
        BY <1>2 DEF ListedOK
      <3>2. ToSet(Listed') = Dir!Visible \ Pending(s)
        BY <2>5, <2>14, <2>17, <3>1
      <3>3. u \notin ToSet(Listed)
        BY <2>12, <3>1
      <3>4. /\ IsFiniteSet(ToSet(Listed'))
            /\ Cardinality(ToSet(Listed')) = Len(Listed')
        <4> DEFINE A == ToSet(Listed)
        <4>1. IsFiniteSet(A \cup {u}) /\ Cardinality(A \cup {u}) = Cardinality(A) + 1
          BY <3>1, <3>3, FS_AddElement
        <4> QED
          BY <2>17, <3>1, <4>1
      <3> QED
        BY <2>4, <3>2, <3>4, SameTree DEF ListedOK
    <2>19. HeapOK'
      <3>1. arrays' \in Seq(Array) /\ Len(arrays') = n /\ n > 0
        BY <2>1, <2>4, <2>6 DEF n
      <3>2. \A a \in 1..n : /\ arrays'[a].live <=> a = n
                            /\ Len(arrays'[a].elems) <= arrays'[a].size
        BY <2>3, <2>4 DEF Extended, n
      <3>3. n = 1 => arrays'[1].size = InitialSize /\ Len(Listed') < InitialSize
        <4> SUFFICES ASSUME n = 1 PROVE arrays'[1].size = InitialSize /\ Len(Listed') < InitialSize
          OBVIOUS
        <4>1. Len(arrays) = 1
          <5> DEFINE m == Len(arrays)
          <5>1. m \in Nat /\ m > 0 /\ 1 >= m
            BY <2>1, <2>6
          <5> HIDE DEF m
          <5>2. m = 1
            BY <5>1
          <5> QED
            BY <5>2 DEF m
        <4>2. arrays[1].size = InitialSize
          BY <1>2, <4>1 DEF HeapOK
        <4>3. new.arrays[1].size = arrays[1].size /\ Len(Listed) + 1 < arrays[1].size
          BY <2>3, <4>1 DEF Extended, n
        <4> QED
          BY <2>4, <2>17, <4>2, <4>3
      <3>4. n > 1 => Len(Listed') >= InitialSize
        <4> SUFFICES ASSUME n > 1 PROVE Len(Listed') >= InitialSize
          OBVIOUS
        <4>1. CASE Len(arrays) > 1
          <5>1. Len(Listed) >= InitialSize
            BY <1>2, <4>1 DEF HeapOK
          <5>2. InitialSize \in Nat
            BY RouterAssumption
          <5> QED
            BY <2>16, <2>17, <5>1, <5>2
        <4>2. CASE Len(arrays) = 1
          <5>1. arrays[1].size = InitialSize
            BY <1>2, <4>2 DEF HeapOK
          <5>2. Len(Listed) + 1 >= arrays[1].size
            BY <2>3, <4>2 DEF Extended, n
          <5> QED
            BY <2>17, <5>1, <5>2
        <4>3. Len(arrays) > 1 \/ Len(arrays) = 1
          <5> DEFINE m == Len(arrays)
          <5>1. m \in Nat /\ m > 0
            BY <2>1
          <5> HIDE DEF m
          <5>2. m > 1 \/ m = 1
            BY <5>1
          <5> QED
            BY <5>2 DEF m
        <4> QED
          BY <4>1, <4>2, <4>3
      <3> QED
        BY <3>1, <3>2, <3>3, <3>4 DEF HeapOK
    <2>20. CallsOK(calls', Len(arrays'))
      BY <2>4, <2>11 DEF n
    <2> QED
      BY <2>4, <2>18, <2>19, <2>20, WalksOn
  <1> QED
    BY <1>4, <1>5

(* The walk is over when the outermost call has read everything.           *)
LEMMA PublishStep ==
  ASSUME WalkInv, Dir!Publish
  PROVE  WalkInv'
  <1>1. /\ process = "walking" /\ Dir!Top.unread = {} /\ Len(calls) = 1
        /\ IF arrays[1].live THEN public' = Dir!Published /\ process' = "serving"
                             ELSE process' = "dangling"
        /\ arrays' = <<>> /\ tree' = tree
    BY DEF Dir!Publish, Dir!Returned
  <1>2. CallsOK(calls, Len(arrays)) /\ HeapOK /\ ListedOK /\ Directory /\ tree \in Trees
    BY <1>1, DirectoryIs DEF WalkInv
  <1>3. Dir!Visible' = Dir!Visible
    BY <1>1, SameTree
  <1>4. CASE ~arrays[1].live
    <2>1. Len(arrays) # 1
      BY <1>2, <1>4 DEF HeapOK
    <2> QED
      BY <1>1, <1>2, <1>3, <1>4, <2>1, FullListing DEF WalkInv
  <1>5. CASE arrays[1].live
    <2>1. Len(arrays) = 1
      BY <1>2, <1>5, HeapIs
    <2>2. Len(Listed) < InitialSize /\ Listed = arrays[1].elems
      BY <1>2, <2>1 DEF HeapOK, Listed
    <2>3. Pending(calls) = {}
      <3>1. calls[1].unread = {}
        BY <1>1, <1>2, TopIs
      <3>2. \A u : \A c \in 1..1 : ~Awaits(calls, c, u)
        BY <3>1 DEF Awaits
      <3> QED
        BY <1>1, <3>2 DEF Pending
    <2>4. ToSet(Listed) = Dir!Visible /\ Cardinality(Dir!Visible) < InitialSize
      BY <1>2, <2>2, <2>3 DEF ListedOK
    <2>5. Dir!Published = ToSet(Listed)
      BY <2>2, DirSets DEF Dir!Published, Dir!Returned
    <2> QED
      BY <1>1, <1>2, <1>3, <1>5, <2>4, <2>5 DEF WalkInv
  <1> QED
    BY <1>4, <1>5

-----------------------------------------------------------------------------
(* The theorems about the walk.                                            *)

LEMMA WalkStep == WalkInv /\ [Next]_vars => WalkInv'
  <1> SUFFICES ASSUME WalkInv, [Next]_vars PROVE WalkInv'
    OBVIOUS
  <1>1. CASE UNCHANGED start
    BY <1>1, SameTree DEF start, WalkInv, CallsOK, HeapOK, ListedOK, Listed
  <1>2. CASE List
    BY <1>2, SkipStep, AddStep, EnterStep, LeaveStep, PublishStep DEF List, Dir!Walk
  <1>3. ASSUME NEW r \in Route, Register(r) PROVE WalkInv'
    BY <1>1, <1>3 DEF Register
  <1>4. ASSUME NEW m \in Methods, NEW u \in URIs, Request(m, u) PROVE WalkInv'
    <2>1. /\ tree' = tree /\ arrays' = arrays /\ public' = public
          /\ process = "serving" /\ process' \in {"serving", "division"}
      BY <1>4 DEF Request
    <2> QED
      BY <2>1, SameTree DEF WalkInv, HeapOK, Listed
  <1> QED
    BY <1>1, <1>2, <1>3, <1>4 DEF Next, Gone, vars

(* The table the router starts with holds exactly the visible regular      *)
(* files, of a public directory of any depth and size.                     *)
THEOREM ListsEveryFile == Spec => []ListsVisible
  <1>1. WalkInv => ListsVisible
    BY DEF WalkInv, ListsVisible, Dir!ListsVisible
  <1> QED
    BY <1>1, InitWalk, WalkStep, PTL DEF Spec

(* darray_add never writes beyond an array, and recursive_walk goes on     *)
(* with a freed one if and only if there are as many visible files as the  *)
(* first array has room for.                                               *)
THEOREM FreedWhenFull == Spec => []ArraysSound
  <1>1. WalkInv => ArraysSound
    <2> SUFFICES ASSUME WalkInv PROVE ArraysSound
      OBVIOUS
    <2>1. \A a \in DOMAIN arrays : Len(arrays[a].elems) <= arrays[a].size
      <3>1. CASE arrays = <<>>
        BY <3>1
      <3>2. CASE HeapOK
        BY <3>2 DEF HeapOK
      <3> QED
        BY <3>1, <3>2 DEF WalkInv
    <2>2. Dir!Cardinality(Dir!Visible) = Cardinality(Dir!Visible)
      BY DEF Dir!Cardinality, Cardinality
    <2> QED
      BY <2>1, <2>2 DEF ArraysSound, Dir!ArraysSound, WalkInv
  <1> QED
    BY <1>1, InitWalk, WalkStep, PTL DEF Spec

-----------------------------------------------------------------------------
(* Folds over sequences and sets of numbers.                               *)

(* The largest number of 1..k+1. *)
LEMMA MaxIs ==
  ASSUME NEW S, NEW k \in S, S \subseteq Nat, \A j \in S : j <= k
  PROVE  Max(S) = k
  <1>1. \A x \in S : (\A y \in S : x >= y) => x = k
    OBVIOUS
  <1>2. \A y \in S : k >= y
    OBVIOUS
  <1> QED
    BY <1>1, <1>2 DEF Max

(* A set of numbers that is not empty has a least one.                     *)
LEMMA LeastIs ==
  ASSUME NEW D \in SUBSET Nat, D # {}
  PROVE  \E i \in D : \A j \in D : i <= j
  <1>1. PICK i \in D : \A j \in D : ~(<<j, i>> \in OpToRel(<, Nat))
    BY WFMin, NatLessThanWellFounded
  <1>2. \A j \in D : ~(j < i)
    BY <1>1 DEF OpToRel
  <1> QED
    BY <1>2

(* A bounded set of numbers contains its largest one.                      *)
LEMMA MaxIn ==
  ASSUME NEW n \in Nat, NEW S \in SUBSET (1..n), S # {}
  PROVE  Max(S) \in S
  <1> DEFINE D == {n - j : j \in S}
  <1>1. D \in SUBSET Nat /\ D # {}
    <2>1. \A j \in S : n - j \in Nat
      OBVIOUS
    <2> QED
      BY <2>1
  <1>2. PICK d \in D : \A e \in D : d <= e
    <2> HIDE DEF D
    <2> QED
      BY <1>1, LeastIs
  <1>3. PICK i \in S : d = n - i
    OBVIOUS
  <1>4. \A j \in S : i >= j
    <2> SUFFICES ASSUME NEW j \in S PROVE i >= j
      OBVIOUS
    <2>1. n - i <= n - j
      BY <1>2, <1>3
    <2> QED
      BY <2>1
  <1> QED
    BY <1>4 DEF Max

(* h is the fold of F from base over the numbers 1..n, smallest first.     *)
Folds(F, base, n, h) ==
  \A S \in SUBSET (1..n) :
    h[S] = IF S = {} THEN base ELSE F[h[S \ {Max(S)}]][Max(S)]

(* There is such a function for every F: it is built number by number.     *)
LEMMA FoldExists ==
  ASSUME NEW n \in Nat, NEW A, NEW base \in A, NEW F \in [A -> [1..n -> A]]
  PROVE  \E h \in [SUBSET (1..n) -> A] : Folds(F, base, n, h)
  <1> DEFINE Ok(k) == \E h \in [SUBSET (1..k) -> A] : Folds(F, base, k, h)
             D == {k \in 0..n : ~Ok(k)}
  <1>1. Ok(0)
    <2>1. SUBSET (1..0) = {{}}
      OBVIOUS
    <2>2. [S \in SUBSET (1..0) |-> base] \in [SUBSET (1..0) -> A]
      OBVIOUS
    <2>3. Folds(F, base, 0, [S \in SUBSET (1..0) |-> base])
      BY <2>1 DEF Folds
    <2> QED
      BY <2>2, <2>3
  <1>2. ASSUME NEW k \in 0..n, k # n, Ok(k) PROVE Ok(k + 1)
    <2>1. PICK h \in [SUBSET (1..k) -> A] : Folds(F, base, k, h)
      BY <1>2
    <2> DEFINE g == [S \in SUBSET (1..k + 1) |->
                      IF k + 1 \in S THEN F[h[S \ {k + 1}]][k + 1] ELSE h[S]]
    <2>2. k + 1 \in 1..n /\ k \in Nat /\ 1..k + 1 = 1..k \cup {k + 1} /\ k + 1 \notin 1..k
      <3>1. k \in Nat /\ k < n
        BY <1>2
      <3>2. 1..k + 1 = 1..k \cup {k + 1}
        BY <3>1
      <3> QED
        BY <3>1, <3>2
    <2>3. ASSUME NEW S \in SUBSET (1..k + 1)
          PROVE  /\ S \ {k + 1} \in SUBSET (1..k)
                 /\ k + 1 \notin S => S \in SUBSET (1..k)
                 /\ g[S] \in A
      <3>1. S \ {k + 1} \in SUBSET (1..k) /\ (k + 1 \notin S => S \in SUBSET (1..k))
        BY <2>2
      <3>2. k + 1 \in S => g[S] \in A
        <4>1. h[S \ {k + 1}] \in A
          BY <3>1
        <4>2. F[h[S \ {k + 1}]][k + 1] \in A
          <5>1. \A a \in A : \A i \in 1..n : F[a][i] \in A
            OBVIOUS
          <5> QED
            BY <2>2, <4>1, <5>1
        <4>3. k + 1 \in S => g[S] = F[h[S \ {k + 1}]][k + 1]
          OBVIOUS
        <4> HIDE DEF g
        <4> QED
          BY <4>2, <4>3
      <3>3. k + 1 \notin S => g[S] \in A
        BY <3>1
      <3> QED
        BY <3>1, <3>2, <3>3
    <2>4. g \in [SUBSET (1..k + 1) -> A]
      BY <2>3
    <2>5. ASSUME NEW S \in SUBSET (1..k + 1)
          PROVE  g[S] = IF S = {} THEN base ELSE F[g[S \ {Max(S)}]][Max(S)]
      <3>1. CASE k + 1 \in S
        <4>1. Max(S) = k + 1
          <5>1. S \subseteq Nat /\ \A j \in S : j <= k + 1
            BY <2>2
          <5> QED
            BY <3>1, <5>1, MaxIs
        <4>2. g[S \ {k + 1}] = h[S \ {k + 1}] /\ g[S] = F[h[S \ {k + 1}]][k + 1]
          BY <2>3, <3>1
        <4> QED
          BY <3>1, <4>1, <4>2
      <3>2. CASE k + 1 \notin S
        <4>1. S \in SUBSET (1..k) /\ S \ {Max(S)} \in SUBSET (1..k)
          BY <2>3, <3>2
        <4>2. g[S] = h[S] /\ g[S \ {Max(S)}] = h[S \ {Max(S)}]
          BY <2>2, <3>2, <4>1
        <4> QED
          BY <2>1, <4>1, <4>2 DEF Folds
      <3> QED
        BY <3>1, <3>2
    <2> QED
      BY <2>4, <2>5 DEF Folds
  <1> HIDE DEF Ok
  <1>3. D = {}
    <2> SUFFICES ASSUME D # {} PROVE FALSE
      OBVIOUS
    <2>1. PICK k \in D : \A j \in D : k <= j
      <3>1. D \in SUBSET Nat
        OBVIOUS
      <3> HIDE DEF D
      <3> QED
        BY <3>1, LeastIs
    <2>2. k # 0 /\ k - 1 \in 0..n /\ k - 1 # n /\ k - 1 < k /\ (k - 1) + 1 = k
      BY <1>1
    <2>3. Ok(k - 1)
      BY <2>1, <2>2
    <2> QED
      BY <1>2, <2>2, <2>3
  <1>4. Ok(n)
    BY <1>3
  <1> QED
    BY <1>4 DEF Ok

\* f gives the fold of steps F from base over the subsets of 1..n.
Unfolds(F, A, base, n, f) ==
  /\ n \in Nat /\ base \in A /\ F \in [A -> [1..n -> A]] /\ f[{}] = base
  /\ \A S \in SUBSET (1..n) :
       S # {} /\ f[S \ {Max(S)}] \in A => f[S] = F[f[S \ {Max(S)}]][Max(S)]

\* w has its values turn by turn.
Turns(F, A, base, n, f, w) ==
  /\ w \in [0..n -> A]
  /\ w[0] = base /\ w[n] = f[1..n]
  /\ \A i \in 1..n : w[i] = F[w[i - 1]][i]

(* The number i ends the interval 1..i.                                    *)
LEMMA IntervalIs ==
  ASSUME NEW n \in Nat, NEW i \in 1..n
  PROVE  /\ i - 1 \in 0..n /\ i \in 0..n /\ i - 1 < i
         /\ 1..i \in SUBSET (1..n) /\ 1..i # {} /\ (1..i) \ {i} = 1..(i - 1)
         /\ Max(1..i) = i
  <1>1. i - 1 \in 0..n /\ i \in 0..n /\ i - 1 < i
    OBVIOUS
  <1>2. i \in 1..i /\ 1..i \subseteq Nat /\ \A j \in 1..i : j <= i
    OBVIOUS
  <1>3. Max(1..i) = i
    BY <1>2, MaxIs
  <1>4. 1..i \in SUBSET (1..n) /\ (1..i) \ {i} = 1..(i - 1)
    OBVIOUS
  <1> QED
    BY <1>1, <1>2, <1>3, <1>4

(* A fold over 1..n is a walk of n turns, each from where the last one     *)
(* ended.                                                                  *)
LEMMA FoldTurns ==
  ASSUME NEW F, NEW A, NEW base, NEW n, NEW f, Unfolds(F, A, base, n, f)
  PROVE  \E w : Turns(F, A, base, n, f, w)
  <1>0. /\ n \in Nat /\ base \in A /\ F \in [A -> [1..n -> A]] /\ f[{}] = base
        /\ \A S \in SUBSET (1..n) :
             S # {} /\ f[S \ {Max(S)}] \in A => f[S] = F[f[S \ {Max(S)}]][Max(S)]
    BY DEF Unfolds
  <1> DEFINE w == [i \in 0..n |-> f[1..i]]
  <1>1. w[0] = base
    <2>1. 1..0 = {}
      OBVIOUS
    <2>2. w[0] = f[{}]
      BY <1>0, <2>1
    <2> QED
      BY <1>0, <2>2
  <1>2. ASSUME NEW i \in 1..n, w[i - 1] \in A PROVE w[i] = F[w[i - 1]][i]
    <2>1. w[i] = f[1..i] /\ w[i - 1] = f[1..(i - 1)]
      BY <1>0, IntervalIs
    <2> HIDE DEF w
    <2> QED
      <3>1. /\ 1..i \in SUBSET (1..n) /\ 1..i # {} /\ (1..i) \ {i} = 1..(i - 1)
            /\ Max(1..i) = i
        BY <1>0, IntervalIs
      <3> QED
        BY <1>0, <1>2, <2>1, <3>1
  <1>3. \A i \in 0..n : w[i] \in A
    <2> DEFINE D == {i \in 0..n : w[i] \notin A}
    <2>1. D \in SUBSET Nat
      BY <1>0
    <2> HIDE DEF w
    <2>2. ASSUME NEW i \in D PROVE i - 1 \in D /\ i - 1 < i
      <3>1. i \in 1..n /\ i - 1 \in 0..n /\ i - 1 < i
        <4>1. i # 0
          BY <1>0, <1>1
        <4>2. i \in 1..n
          BY <1>0, <4>1
        <4> QED
          BY <1>0, <4>2, IntervalIs
      <3>2. w[i - 1] \notin A
        <4> SUFFICES ASSUME w[i - 1] \in A PROVE FALSE
          OBVIOUS
        <4>1. w[i] = F[w[i - 1]][i]
          BY <1>2, <3>1
        <4> QED
          BY <1>0, <3>1, <4>1
      <3> QED
        BY <3>1, <3>2
    <2>3. D = {}
      <3> HIDE DEF D
      <3>1. ASSUME NEW i \in D, \A j \in D : i <= j PROVE FALSE
        <4>1. i - 1 \in D /\ i - 1 < i /\ i \in Nat
          BY <2>1, <2>2
        <4> QED
          BY <1>0, <3>1, <4>1
      <3> QED
        BY <2>1, <3>1, LeastIs
    <2> QED
      BY <2>3
  <1>4. w \in [0..n -> A] /\ w[n] = f[1..n]
    BY <1>0, <1>3
  <1>5. \A i \in 1..n : w[i] = F[w[i - 1]][i]
    <2> SUFFICES ASSUME NEW i \in 1..n PROVE w[i] = F[w[i - 1]][i]
      OBVIOUS
    <2>1. i - 1 \in 0..n
      BY <1>0, IntervalIs
    <2> HIDE DEF w
    <2> QED
      BY <1>2, <1>3, <2>1
  <1> HIDE DEF w
  <1> QED
    BY <1>1, <1>4, <1>5 DEF Turns

\* The nodes a search passes
Stops(t) == {None, Root} \cup ToSet(t.nodes)


\* Of the nodes, the i-th is a child of n that takes x.
Receives(t, i, n, x) == IsChild(t.nodes[i], n) /\ Takes(Last(t.nodes[i]), x)

(* The first child of n that takes x, if one does.                         *)
LEMMA SelectedIs ==
  ASSUME NEW t, NEW n, NEW x, t.nodes \in Seq(Seq(Segments))
  PROVE  LET i == SelectInSeq(t.nodes, LAMBDA m : IsChild(m, n) /\ Takes(Last(m), x))
             I == {j \in 1..Len(t.nodes) : Receives(t, j, n, x)}
         IN  IF I = {} THEN i = 0 ELSE i \in I /\ \A j \in I : i <= j
  <1> DEFINE I == {j \in 1..Len(t.nodes) : Receives(t, j, n, x)}
             i == SelectInSeq(t.nodes, LAMBDA m : IsChild(m, n) /\ Takes(Last(m), x))
  <1>1. i = IF I # {} THEN Min(I) ELSE 0
    BY DEF SelectInSeq, Receives
  <1>2. I \in SUBSET Nat
    OBVIOUS
  <1> HIDE DEF I, i
  <1>3. I # {} => \E c \in I : \A j \in I : c <= j
    BY <1>2, LeastIs
  <1>4. I # {} => i \in I /\ \A j \in I : i <= j
    BY <1>1, <1>3 DEF Min
  <1> QED
    BY <1>1, <1>4 DEF I, i

(* One turn of the search. *)
LEMMA DescendIs ==
  ASSUME NEW t, NEW n, NEW x, t.nodes \in Seq(Seq(Segments)), n # None
  PROVE  \/ /\ \A i \in 1..Len(t.nodes) : ~IsChild(t.nodes[i], n)
            /\ Descend(t, n, x) = n
         \/ /\ \E i \in 1..Len(t.nodes) : IsChild(t.nodes[i], n)
            /\ \A i \in 1..Len(t.nodes) : ~Receives(t, i, n, x)
            /\ Descend(t, n, x) = None
         \/ \E i \in 1..Len(t.nodes) :
              /\ Receives(t, i, n, x) /\ \A j \in 1..Len(t.nodes) : Receives(t, j, n, x) => i <= j
              /\ Descend(t, n, x) = t.nodes[i]
  <1> DEFINE I == {j \in 1..Len(t.nodes) : Receives(t, j, n, x)}
             i == SelectInSeq(t.nodes, LAMBDA m : IsChild(m, n) /\ Takes(Last(m), x))
  <1>1. IF I = {} THEN i = 0 ELSE i \in I /\ \A j \in I : i <= j
    BY SelectedIs
  <1>2. Descend(t, n, x) = IF \A j \in 1..Len(t.nodes) : ~IsChild(t.nodes[j], n) THEN n
                           ELSE IF i = 0 THEN None ELSE t.nodes[i]
    <2>1. (\A m \in ToSet(t.nodes) : ~IsChild(m, n)) <=> \A j \in 1..Len(t.nodes) : ~IsChild(t.nodes[j], n)
      BY DEF ToSet
    <2> QED
      BY <2>1 DEF Descend
  <1>3. i = 0 => I = {}
    <2> HIDE DEF i
    <2> QED
      BY <1>1
  <1> HIDE DEF i
  <1>4. CASE \A j \in 1..Len(t.nodes) : ~IsChild(t.nodes[j], n)
    BY <1>2, <1>4
  <1>5. CASE (\E j \in 1..Len(t.nodes) : IsChild(t.nodes[j], n)) /\ I = {}
    BY <1>1, <1>2, <1>5
  <1>6. CASE (\E j \in 1..Len(t.nodes) : IsChild(t.nodes[j], n)) /\ I # {}
    BY <1>1, <1>2, <1>3, <1>6
  <1> QED
    BY <1>4, <1>5, <1>6

(* A search stops at a node, or nowhere.                                   *)
LEMMA DescendIn ==
  ASSUME NEW t, NEW n \in Stops(t), NEW x, t.nodes \in Seq(Seq(Segments))
  PROVE  Descend(t, n, x) \in Stops(t)
  <1>1. CASE n = None
    BY <1>1 DEF Descend, Stops
  <1>2. CASE n # None
    <2>1. \A i \in 1..Len(t.nodes) : t.nodes[i] \in Stops(t)
      BY DEF ToSet, Stops
    <2> QED
      BY <1>2, <2>1, DescendIs DEF Stops
  <1> QED
    BY <1>1, <1>2

\* w[i] is where the search for u stands after i segments.
Trail(t, u, w) ==
  /\ w \in [0..Len(u) -> Stops(t)]
  /\ w[0] = Root
  /\ \A i \in 1..Len(u) : w[i] = Descend(t, w[i - 1], u[i])

(* The search for u has a trail.                                           *)
LEMMA WalkIs ==
  ASSUME NEW t, NEW S, NEW u \in Seq(S), t.nodes \in Seq(Seq(Segments))
  PROVE  \E w : Trail(t, u, w) /\ Walk(t, u) = w[Len(u)]
  <1> DEFINE k == Len(u)  A == Stops(t)
             After(h) == [T \in SUBSET DOMAIN u |-> IF T = {} THEN Root ELSE LET x == Max(T) IN Descend(t, h[T \ {x}], u[x])]
             F == [a \in A |-> [i \in 1..k |-> Descend(t, a, u[i])]]
             f == CHOOSE h : h = After(h)
  <1>1. Walk(t, u) = f[DOMAIN u]
    BY DEF Walk, FoldLeft, MapThenFoldSet
  <1>2. DOMAIN u = 1..k /\ k \in Nat /\ Root \in A
    BY DEF Stops
  <1>3. F \in [A -> [1..k -> A]]
    BY DescendIn
  <1>4. \A a \in A : \A i \in 1..k : F[a][i] = Descend(t, a, u[i])
    OBVIOUS
  <1> HIDE DEF k, A, F, After
  <1>5. PICK h \in [SUBSET (1..k) -> A] : Folds(F, Root, k, h)
    BY <1>2, <1>3, FoldExists
  <1>6. h = After(h)
    <2>1. ASSUME NEW T \in SUBSET (1..k), T # {} PROVE h[T] = Descend(t, h[T \ {Max(T)}], u[Max(T)])
      <3>1. Max(T) \in 1..k
        BY <1>2, <2>1, MaxIn
      <3>2. h[T \ {Max(T)}] \in A
        OBVIOUS
      <3> QED
        BY <1>4, <1>5, <2>1, <3>1, <3>2 DEF Folds
    <2>2. h[{}] = Root
      BY <1>5 DEF Folds
    <2> QED
      BY <1>2, <2>1, <2>2 DEF After
  <1>7. f = After(f)
    BY <1>6
  <1> HIDE DEF f
  <1>8. Unfolds(F, A, Root, k, f)
    <2>1. f[{}] = Root
      BY <1>7 DEF After
    <2>2. ASSUME NEW T \in SUBSET (1..k), T # {}, f[T \ {Max(T)}] \in A
          PROVE  f[T] = F[f[T \ {Max(T)}]][Max(T)]
      <3>1. Max(T) \in 1..k
        BY <1>2, <2>2, MaxIn
      <3>2. f[T] = Descend(t, f[T \ {Max(T)}], u[Max(T)])
        BY <1>2, <1>7, <2>2 DEF After
      <3> QED
        BY <1>4, <2>2, <3>1, <3>2
    <2> QED
      BY <1>2, <1>3, <2>1, <2>2 DEF Unfolds
  <1>9. PICK w : Turns(F, A, Root, k, f, w)
    BY <1>8, FoldTurns
  <1>10. w \in [0..k -> A] /\ w[0] = Root /\ w[k] = f[1..k]
    BY <1>9 DEF Turns
  <1>11. \A i \in 1..k : w[i] = Descend(t, w[i - 1], u[i])
    <2> SUFFICES ASSUME NEW i \in 1..k PROVE w[i] = Descend(t, w[i - 1], u[i])
      OBVIOUS
    <2>1. i - 1 \in 0..k
      BY <1>2, IntervalIs
    <2> QED
      BY <1>4, <1>9, <1>10, <2>1 DEF Turns
  <1> QED
    BY <1>1, <1>2, <1>10, <1>11 DEF Trail, k, A

-----------------------------------------------------------------------------
(* The trie.                                                               *)

(* What holds at first, and after each turn if before it, always holds.    *)
LEMMA EachTurn ==
  ASSUME NEW n \in Nat, NEW G, 0 \in G, \A i \in 1..n : i - 1 \in G => i \in G
  PROVE  0..n \subseteq G
  <1> DEFINE D == (0..n) \ G
  <1>1. ASSUME NEW i \in D, \A j \in D : i <= j PROVE FALSE
    <2>1. i \in 1..n /\ i - 1 \in 0..n /\ i - 1 < i /\ i - 1 \notin G
      OBVIOUS
    <2> QED
      BY <1>1, <2>1
  <1>2. D \in SUBSET Nat
    OBVIOUS
  <1> HIDE DEF D
  <1>3. D = {}
    BY <1>1, <1>2, LeastIs
  <1> QED
    BY <1>3 DEF D

(* The first c segments of a sequence.                                     *)
LEMMA BeginningIs ==
  ASSUME NEW S, NEW s \in Seq(S), NEW c \in 0..Len(s)
  PROVE  /\ SubSeq(s, 1, c) \in Seq(S) /\ Len(SubSeq(s, 1, c)) = c
         /\ \A j \in 1..c : SubSeq(s, 1, c)[j] = s[j]
  OBVIOUS

\* The sequence n is the beginning of s.
Begins(n, s) == Len(n) <= Len(s) /\ \A j \in 1..Len(n) : n[j] = s[j]

(* The library's prefixes are beginnings.                                  *)
LEMMA BeginsIs ==
  ASSUME NEW S, NEW s \in Seq(S), NEW n \in Seq(S)
  PROVE  /\ IsPrefix(n, s) <=> Begins(n, s)
         /\ Begins(n, s) => n = SubSeq(s, 1, Len(n)) /\ Len(n) \in 0..Len(s)
  <1>1. IsPrefix(n, s) <=> Begins(n, s)
    BY PrefixIs DEF Begins
  <1>2. ASSUME Begins(n, s) PROVE n = SubSeq(s, 1, Len(n)) /\ Len(n) \in 0..Len(s)
    <2>1. Len(n) \in 0..Len(s)
      BY <1>2 DEF Begins
    <2> DEFINE b == SubSeq(s, 1, Len(n))
    <2>2. b \in Seq(S) /\ Len(b) = Len(n) /\ \A j \in 1..Len(n) : b[j] = s[j]
      BY <2>1, BeginningIs
    <2> HIDE DEF b
    <2>3. n = b
      BY <1>2, <2>2, SeqEqual DEF Begins
    <2> QED
      BY <2>1, <2>3 DEF b
  <1> QED
    BY <1>1, <1>2

(* What AddRoute makes of the nodes ns, after c turns for the segments s.  *)
GrownFrom(ns, g, s, c) ==
  /\ g \in Seq(Seq(Segments)) /\ Len(ns) <= Len(g)
  /\ \A j \in 1..Len(ns) : g[j] = ns[j]
  /\ \A j \in 1..Len(g) : j > Len(ns) => \E d \in 1..c : g[j] = SubSeq(s, 1, d)
  /\ \A d \in 1..c : \E j \in 1..Len(g) : g[j] = SubSeq(s, 1, d)
  /\ \A j, k \in 1..Len(g) : g[j] = g[k] => j = k

(* One turn of AddRoute.                                                   *)
LEMMA AttachedIs ==
  ASSUME NEW ns \in Seq(Seq(Segments)), NEW s \in Seq(Segments), NEW c \in 1..Len(s),
         NEW g, GrownFrom(ns, g, s, c - 1)
  PROVE  GrownFrom(ns, Attached(g, SubSeq(s, 1, c)), s, c)
  <1> DEFINE n == SubSeq(s, 1, c)  h == Attached(g, n)
  <1>1. /\ g \in Seq(Seq(Segments)) /\ Len(ns) <= Len(g)
        /\ \A j \in 1..Len(ns) : g[j] = ns[j]
        /\ \A j \in 1..Len(g) : j > Len(ns) => \E d \in 1..c - 1 : g[j] = SubSeq(s, 1, d)
        /\ \A d \in 1..c - 1 : \E j \in 1..Len(g) : g[j] = SubSeq(s, 1, d)
        /\ \A j, k \in 1..Len(g) : g[j] = g[k] => j = k
    BY DEF GrownFrom
  <1>2. n \in Seq(Segments) /\ c \in Nat
    BY BeginningIs
  <1>3. \A d \in 1..c : d \in 1..c - 1 \/ d = c
    OBVIOUS
  <1>4. \A d \in 1..c - 1 : d \in 1..c
    OBVIOUS
  <1>5. c \in 1..c
    OBVIOUS
  <1>6. CASE Contains(g, n)
    <2>1. h = g
      BY <1>6 DEF Attached
    <2>2. \E j \in 1..Len(g) : g[j] = n
      BY <1>6 DEF Contains
    <2>3. \A d \in 1..c : \E j \in 1..Len(g) : g[j] = SubSeq(s, 1, d)
      BY <1>1, <1>3, <2>2
    <2>4. \A j \in 1..Len(g) : j > Len(ns) => \E d \in 1..c : g[j] = SubSeq(s, 1, d)
      BY <1>1, <1>4
    <2> HIDE DEF h
    <2>5. GrownFrom(ns, g, s, c)
      BY <1>1, <2>3, <2>4 DEF GrownFrom
    <2> QED
      BY <2>1, <2>5 DEF h
  <1>7. CASE ~Contains(g, n)
    <2> DEFINE k == Len(g)
    <2>1. h = Append(g, n)
      BY <1>7 DEF Attached
    <2>2. \A j \in 1..k : g[j] # n
      BY <1>7 DEF Contains
    <2>3. /\ h \in Seq(Seq(Segments)) /\ Len(h) = k + 1 /\ h[k + 1] = n
          /\ \A j \in 1..k : h[j] = g[j]
      <3> HIDE DEF n, h
      <3> QED
        BY <1>1, <1>2, <2>1
    <2>4. k \in Nat /\ Len(ns) \in Nat
      BY <1>1
    <2> HIDE DEF h, k, n
    <2>5. \A j \in 1..k + 1 : j \in 1..k \/ j = k + 1
      BY <2>4
    <2>6. \A j \in 1..k : j \in 1..k + 1
      BY <2>4
    <2>7. k + 1 \in 1..k + 1
      BY <2>4
    <2>8. \A j \in 1..Len(ns) : h[j] = ns[j]
      <3>1. \A j \in 1..Len(ns) : j \in 1..k
        BY <1>1, <2>4 DEF k
      <3> QED
        BY <1>1, <2>3, <3>1
    <2>9. \A j \in 1..k + 1 : j > Len(ns) => \E d \in 1..c : h[j] = SubSeq(s, 1, d)
      <3> SUFFICES ASSUME NEW j \in 1..k + 1, j > Len(ns)
                   PROVE  \E d \in 1..c : h[j] = SubSeq(s, 1, d)
        OBVIOUS
      <3>1. CASE j = k + 1
        BY <1>5, <2>3, <3>1 DEF n
      <3>2. CASE j \in 1..k
        <4>1. \E d \in 1..c - 1 : g[j] = SubSeq(s, 1, d)
          BY <1>1, <3>2 DEF k
        <4> QED
          BY <1>4, <2>3, <3>2, <4>1
      <3> QED
        BY <2>5, <3>1, <3>2
    <2>10. \A d \in 1..c : \E j \in 1..k + 1 : h[j] = SubSeq(s, 1, d)
      BY <1>1, <1>3, <2>3, <2>6, <2>7 DEF k, n
    <2>11. \A i, j \in 1..k + 1 : h[i] = h[j] => i = j
      <3>1. \A i, j \in 1..k : g[i] = g[j] => i = j
        BY <1>1 DEF k
      <3>2. \A i, j \in 1..k : h[i] = h[j] => i = j
        BY <2>3, <3>1
      <3>3. \A i \in 1..k : h[i] # h[k + 1]
        BY <2>2, <2>3
      <3> QED
        BY <2>5, <3>2, <3>3
    <2>12. Len(ns) <= k + 1
      BY <1>1, <2>4 DEF k
    <2> QED
      BY <2>3, <2>8, <2>9, <2>10, <2>11, <2>12 DEF GrownFrom, h, n
  <1> QED
    BY <1>6, <1>7

(* All its turns.                                                          *)
LEMMA GrownIs ==
  ASSUME NEW t, NEW s \in Seq(Segments), t.nodes \in Seq(Seq(Segments)),
         \A j, k \in 1..Len(t.nodes) : t.nodes[j] = t.nodes[k] => j = k
  PROVE  GrownFrom(t.nodes, Grown(t, s), s, Len(s))
  <1> DEFINE k == Len(s)  A == Seq(Seq(Segments))  u == Way(s)
             After(h) == [T \in SUBSET DOMAIN u |->
                           IF T = {} THEN t.nodes ELSE LET x == Max(T) IN Attached(h[T \ {x}], u[x])]
             F == [a \in A |-> [i \in 1..k |-> Attached(a, u[i])]]
             f == CHOOSE h : h = After(h)
  <1>1. Grown(t, s) = f[DOMAIN u]
    BY DEF Grown, FoldLeft, MapThenFoldSet
  <1>2. DOMAIN u = 1..k /\ k \in Nat /\ t.nodes \in A
    BY DEF Way
  <1>3. \A i \in 1..k : u[i] = SubSeq(s, 1, i) /\ u[i] \in Seq(Segments)
    BY BeginningIs DEF Way
  <1>4. F \in [A -> [1..k -> A]]
    <2> SUFFICES ASSUME NEW a \in A, NEW i \in 1..k PROVE Attached(a, u[i]) \in A
      OBVIOUS
    <2>1. u[i] \in Seq(Segments)
      BY <1>3
    <2> HIDE DEF u
    <2> QED
      BY <2>1 DEF Attached
  <1>5. \A a \in A : \A i \in 1..k : F[a][i] = Attached(a, u[i])
    OBVIOUS
  <1> HIDE DEF k, A, F, After, u
  <1>6. PICK h \in [SUBSET (1..k) -> A] : Folds(F, t.nodes, k, h)
    BY <1>2, <1>4, FoldExists
  <1>7. h = After(h)
    <2>1. ASSUME NEW T \in SUBSET (1..k), T # {}
          PROVE  h[T] = Attached(h[T \ {Max(T)}], u[Max(T)])
      <3>1. Max(T) \in 1..k
        BY <1>2, <2>1, MaxIn
      <3>2. h[T \ {Max(T)}] \in A
        OBVIOUS
      <3> QED
        BY <1>5, <1>6, <2>1, <3>1, <3>2 DEF Folds
    <2>2. h[{}] = t.nodes
      BY <1>6 DEF Folds
    <2> QED
      BY <1>2, <2>1, <2>2 DEF After
  <1>8. f = After(f)
    BY <1>7
  <1> HIDE DEF f
  <1>9. Unfolds(F, A, t.nodes, k, f)
    <2>1. f[{}] = t.nodes
      BY <1>8 DEF After
    <2>2. ASSUME NEW T \in SUBSET (1..k), T # {}, f[T \ {Max(T)}] \in A
          PROVE  f[T] = F[f[T \ {Max(T)}]][Max(T)]
      <3>1. Max(T) \in 1..k
        BY <1>2, <2>2, MaxIn
      <3>2. f[T] = Attached(f[T \ {Max(T)}], u[Max(T)])
        BY <1>2, <1>8, <2>2 DEF After
      <3> QED
        BY <1>5, <2>2, <3>1, <3>2
    <2> QED
      BY <1>2, <1>4, <2>1, <2>2 DEF Unfolds
  <1>10. PICK w : Turns(F, A, t.nodes, k, f, w)
    BY <1>9, FoldTurns
  <1>11. w \in [0..k -> A] /\ w[0] = t.nodes /\ w[k] = Grown(t, s)
    BY <1>1, <1>2, <1>10 DEF Turns
  <1>12. \A i \in 1..k : i - 1 \in 0..k /\ w[i] = Attached(w[i - 1], SubSeq(s, 1, i))
    <2> SUFFICES ASSUME NEW i \in 1..k PROVE i - 1 \in 0..k /\ w[i] = Attached(w[i - 1], SubSeq(s, 1, i))
      OBVIOUS
    <2>1. i - 1 \in 0..k
      BY <1>2, IntervalIs
    <2>2. w[i] = Attached(w[i - 1], u[i])
      BY <1>5, <1>10, <1>11, <2>1 DEF Turns
    <2> QED
      BY <1>3, <2>1, <2>2
  <1> DEFINE Ok(i) == GrownFrom(t.nodes, w[i], s, i)
  <1>13. Ok(0)
    BY <1>11 DEF GrownFrom, A
  <1>14. \A i \in 1..k : Ok(i - 1) => Ok(i)
    BY <1>12, AttachedIs DEF k
  <1> HIDE DEF Ok
  <1>15. Ok(k)
    <2> DEFINE G == {i \in 0..k : Ok(i)}
    <2>0. 0 \in 0..k /\ k \in 0..k
      BY <1>2
    <2>1. 0 \in G /\ k \in 0..k
      BY <1>13, <2>0
    <2>2. \A i \in 1..k : i - 1 \in G => i \in G
      <3>1. \A i \in 1..k : i \in 0..k
        BY <1>2
      <3> QED
        BY <1>12, <1>14, <3>1
    <2> HIDE DEF G
    <2>3. 0..k \subseteq G
      BY <1>2, <2>1, <2>2, EachTurn
    <2> QED
      BY <2>1, <2>3 DEF G
  <1> QED
    BY <1>11, <1>15 DEF Ok, k

\* The entries of the log l for method m.
For(l, m) == {i \in 1..Len(l) : l[i].method = m}

(* Nodes are the non-empty beginnings of the routes registered.  Of two    *)
(* nodes as far from the root, the first has the older route.              *)
NodesOf(ns, m, l) ==
  /\ ns \in Seq(Seq(Segments))
  /\ \A a, b \in 1..Len(ns) : ns[a] = ns[b] => a = b
  /\ \A a \in 1..Len(ns) :
       Len(ns[a]) > 0 /\ \E i \in For(l, m) : Begins(ns[a], l[i].segments)
  /\ \A i \in For(l, m) : \A c \in 1..Len(l[i].segments) :
       \E a \in 1..Len(ns) : ns[a] = SubSeq(l[i].segments, 1, c)
  /\ \A a, b \in 1..Len(ns) : a < b /\ Len(ns[a]) = Len(ns[b]) =>
       \A j \in For(l, m) : Begins(ns[b], l[j].segments) =>
         \E i \in For(l, m) : i < j /\ Begins(ns[a], l[i].segments)

\* The entry i of l is the last for the route n.
IsLast(l, m, n, i) ==
  /\ i \in For(l, m) /\ l[i].segments = n
  /\ \A j \in For(l, m) : l[j].segments = n => j <= i

(* A node has the callback registered last on its route.                   *)
CallbacksOf(t, m, l) ==
  /\ t.callback \in [{Root} \cup ToSet(t.nodes) -> Callbacks \cup {None}]
  /\ \A n \in {Root} \cup ToSet(t.nodes) :
       \/ (\A i \in For(l, m) : l[i].segments # n) /\ t.callback[n] = None
       \/ \E i \in For(l, m) : IsLast(l, m, n, i) /\ t.callback[n] = l[i].callback

(* t is what the entries of l for the method m make.                       *)
TrieOf(t, m, l) == NodesOf(t.nodes, m, l) /\ CallbacksOf(t, m, l)

(* The fields of a route.                                                  *)
LEMMA RouteIs ==
  \A r \in Route : /\ r.method \in Methods /\ r.segments \in Seq(Segments)
                   /\ r.callback \in Callbacks
  BY RouterAssumption DEF Route

(* The fields of the entries of a log.                                     *)
LEMMA LoggedIs ==
  ASSUME NEW l \in Seq(Route), NEW m
  PROVE  /\ For(l, m) \in SUBSET Nat
         /\ \A i \in For(l, m) : /\ l[i] \in Route /\ l[i].segments \in Seq(Segments)
                                 /\ l[i].callback \in Callbacks
  <1>1. \A i \in For(l, m) : l[i] \in Route /\ i \in Nat
    BY DEF For
  <1> QED
    BY <1>1, RouteIs

(* The log e is l with one more entry r.                                   *)
Extends(e, l, r) ==
  /\ e \in Seq(Route) /\ e[Len(l) + 1] = r
  /\ \A m : For(e, m) = IF m = r.method THEN For(l, m) \cup {Len(l) + 1} ELSE For(l, m)
  /\ \A m : \A i \in For(l, m) : e[i] = l[i] /\ i < Len(l) + 1 /\ i \in Nat

(* A log grows by the route registered.                                    *)
LEMMA LongerLog ==
  ASSUME NEW l \in Seq(Route), NEW r \in Route
  PROVE  Extends(Append(l, r), l, r)
  <1> DEFINE e == Append(l, r)  k == Len(l) + 1
  <1>1. e \in Seq(Route) /\ Len(e) = k /\ e[k] = r /\ \A i \in 1..Len(l) : e[i] = l[i]
    OBVIOUS
  <1> HIDE DEF e
  <1>2. 1..k = 1..Len(l) \cup {k} /\ \A i \in 1..Len(l) : i < k /\ i \in Nat
    OBVIOUS
  <1> HIDE DEF k
  <1>3. \A i \in 1..Len(l) : e[i].method = l[i].method
    BY <1>1
  <1>4. ASSUME NEW m
        PROVE  For(e, m) = IF m = r.method THEN For(l, m) \cup {k} ELSE For(l, m)
    BY <1>1, <1>2, <1>3 DEF For
  <1>5. \A m : \A i \in For(l, m) : e[i] = l[i] /\ i < k /\ i \in Nat
    BY <1>1, <1>2 DEF For
  <1> QED
    BY <1>1, <1>4, <1>5 DEF Extends, e, k

(* Registering a route for another method.                                 *)
LEMMA OtherTrie ==
  ASSUME NEW l \in Seq(Route), NEW r \in Route, NEW m, r.method # m,
         NEW t, TrieOf(t, m, l)
  PROVE  TrieOf(t, m, Append(l, r))
  <1> DEFINE e == Append(l, r)
  <1>1. For(e, m) = For(l, m) /\ \A i \in For(l, m) : e[i] = l[i]
    <2>1. Extends(e, l, r)
      BY LongerLog
    <2> HIDE DEF e
    <2> QED
      BY <2>1 DEF Extends
  <1> HIDE DEF e
  <1>2. NodesOf(t.nodes, m, e)
    <2> DEFINE ns == t.nodes  I == For(l, m)
    <2>1. /\ ns \in Seq(Seq(Segments))
          /\ \A a, b \in 1..Len(ns) : ns[a] = ns[b] => a = b
          /\ \A a \in 1..Len(ns) : Len(ns[a]) > 0 /\ \E i \in I : Begins(ns[a], l[i].segments)
          /\ \A i \in I : \A c \in 1..Len(l[i].segments) :
               \E a \in 1..Len(ns) : ns[a] = SubSeq(l[i].segments, 1, c)
          /\ \A a, b \in 1..Len(ns) : a < b /\ Len(ns[a]) = Len(ns[b]) =>
               \A j \in I : Begins(ns[b], l[j].segments) =>
                 \E i \in I : i < j /\ Begins(ns[a], l[i].segments)
      BY DEF TrieOf, NodesOf
    <2>2. For(e, m) = I /\ \A i \in I : e[i].segments = l[i].segments
      BY <1>1
    <2> HIDE DEF ns, I
    <2>3. \A i \in I : \A c \in 1..Len(e[i].segments) :
            \E a \in 1..Len(ns) : ns[a] = SubSeq(e[i].segments, 1, c)
      <3> SUFFICES ASSUME NEW i \in I, NEW c \in 1..Len(e[i].segments)
                   PROVE  \E a \in 1..Len(ns) : ns[a] = SubSeq(e[i].segments, 1, c)
        OBVIOUS
      <3>1. e[i].segments = l[i].segments
        BY <2>2
      <3>2. c \in 1..Len(l[i].segments)
        BY <3>1
      <3>3. \E a \in 1..Len(ns) : ns[a] = SubSeq(l[i].segments, 1, c)
        BY <2>1, <3>2
      <3> QED
        BY <3>1, <3>3
    <2>4. \A a \in 1..Len(ns) : Len(ns[a]) > 0 /\ \E i \in I : Begins(ns[a], e[i].segments)
      BY <2>1, <2>2
    <2>5. \A a, b \in 1..Len(ns) : a < b /\ Len(ns[a]) = Len(ns[b]) =>
            \A j \in I : Begins(ns[b], e[j].segments) =>
              \E i \in I : i < j /\ Begins(ns[a], e[i].segments)
      BY <2>1, <2>2
    <2> QED
      BY <2>1, <2>2, <2>3, <2>4, <2>5 DEF NodesOf, ns
  <1>3. \A n, i : i \in For(l, m) => (IsLast(e, m, n, i) <=> IsLast(l, m, n, i))
    BY <1>1 DEF IsLast
  <1>4. CallbacksOf(t, m, e)
    BY <1>1, <1>3 DEF TrieOf, CallbacksOf
  <1> QED
    BY <1>2, <1>4 DEF TrieOf, e

(* Beginnings of equal length of one sequence are equal.                   *)
LEMMA OneBeginning ==
  ASSUME NEW s \in Seq(Segments), NEW n \in Seq(Segments), NEW m \in Seq(Segments),
         Begins(n, s), Begins(m, s), Len(n) = Len(m)
  PROVE  n = m
  <1>1. n = SubSeq(s, 1, Len(n)) /\ m = SubSeq(s, 1, Len(m))
    BY BeginsIs
  <1> QED
    BY <1>1

(* The first c segments of s are a beginning of it.                        *)
LEMMA BeginningBegins ==
  ASSUME NEW s \in Seq(Segments), NEW c \in 0..Len(s)
  PROVE  /\ SubSeq(s, 1, c) \in Seq(Segments) /\ Len(SubSeq(s, 1, c)) = c
         /\ Begins(SubSeq(s, 1, c), s)
  <1> DEFINE b == SubSeq(s, 1, c)
  <1>1. b \in Seq(Segments) /\ Len(b) = c /\ \A j \in 1..c : b[j] = s[j]
    BY BeginningIs
  <1> HIDE DEF b
  <1>2. c <= Len(s)
    OBVIOUS
  <1> QED
    BY <1>1, <1>2 DEF Begins, b

(* The nodes after a route is registered.                                  *)
LEMMA AddedNodes ==
  ASSUME NEW l \in Seq(Route), NEW r \in Route, NEW t, NodesOf(t.nodes, r.method, l)
  PROVE  NodesOf(Grown(t, r.segments), r.method, Append(l, r))
  <1> DEFINE s == r.segments  m == r.method  ns == t.nodes  g == Grown(t, s)
             e == Append(l, r)  k == Len(l) + 1  I == For(l, m)  J == For(e, m)
             p == Len(ns)  q == Len(g)
  <1>1. s \in Seq(Segments)
    BY RouteIs
  <1>2. /\ ns \in Seq(Seq(Segments))
        /\ \A a, b \in 1..p : ns[a] = ns[b] => a = b
        /\ \A a \in 1..p : Len(ns[a]) > 0 /\ \E i \in I : Begins(ns[a], l[i].segments)
        /\ \A i \in I : \A c \in 1..Len(l[i].segments) : \E a \in 1..p : ns[a] = SubSeq(l[i].segments, 1, c)
        /\ \A a, b \in 1..p : a < b /\ Len(ns[a]) = Len(ns[b]) =>
             \A j \in I : Begins(ns[b], l[j].segments) =>
               \E i \in I : i < j /\ Begins(ns[a], l[i].segments)
    BY DEF NodesOf
  <1>3. GrownFrom(ns, g, s, Len(s))
    BY <1>1, <1>2, GrownIs
  <1>4. /\ J = I \cup {k} /\ e[k] = r /\ k \in J
        /\ \A i \in I : e[i] = l[i] /\ i < k /\ i \in Nat
    <2>1. Extends(e, l, r)
      BY LongerLog
    <2> HIDE DEF e
    <2> QED
      BY <2>1 DEF Extends
  <1> HIDE DEF g, e, k, I, J
  <1>5. /\ g \in Seq(Seq(Segments)) /\ p <= q /\ p \in Nat /\ q \in Nat
        /\ \A j \in 1..p : g[j] = ns[j]
        /\ \A j \in 1..q : j > p => \E d \in 1..Len(s) : g[j] = SubSeq(s, 1, d)
        /\ \A d \in 1..Len(s) : \E j \in 1..q : g[j] = SubSeq(s, 1, d)
        /\ \A i, j \in 1..q : g[i] = g[j] => i = j
    BY <1>2, <1>3 DEF GrownFrom
  <1> HIDE DEF p, q, s, m, ns
  <1>6. \A j \in 1..p : j \in 1..q
    BY <1>5
  \* A new node.
  <1>7. ASSUME NEW a \in 1..q, a > p
        PROVE  g[a] \in Seq(Segments) /\ Len(g[a]) > 0 /\ Begins(g[a], s)
    <2>1. PICK d \in 1..Len(s) : g[a] = SubSeq(s, 1, d)
      BY <1>5, <1>7
    <2>2. d \in 0..Len(s) /\ d > 0
      OBVIOUS
    <2>3. SubSeq(s, 1, d) \in Seq(Segments) /\ Len(SubSeq(s, 1, d)) = d /\ Begins(SubSeq(s, 1, d), s)
      BY <1>1, <2>2, BeginningBegins
    <2> QED
      BY <2>1, <2>2, <2>3
  <1>8. \A a \in 1..q : a \in 1..p \/ a > p
    BY <1>5
  <1>9. ASSUME NEW a \in 1..q
        PROVE  Len(g[a]) > 0 /\ \E i \in J : Begins(g[a], e[i].segments)
    <2>1. CASE a \in 1..p
      <3>1. PICK i \in I : Begins(ns[a], l[i].segments)
        BY <1>2, <2>1
      <3>2. i \in J /\ Begins(g[a], e[i].segments) /\ g[a] = ns[a]
        BY <1>4, <1>5, <2>1, <3>1
      <3> QED
        BY <1>2, <2>1, <3>2
    <2>2. CASE a > p
      BY <1>4, <1>7, <2>2 DEF s
    <2> QED
      BY <1>8, <2>1, <2>2
  <1>10. ASSUME NEW i \in J, NEW c \in 1..Len(e[i].segments)
         PROVE  \E a \in 1..q : g[a] = SubSeq(e[i].segments, 1, c)
    <2>1. CASE i \in I
      <3>1. PICK a \in 1..p : ns[a] = SubSeq(l[i].segments, 1, c)
        BY <1>2, <1>4, <2>1
      <3> QED
        BY <1>4, <1>5, <1>6, <2>1, <3>1
    <2>2. CASE i = k
      BY <1>4, <1>5, <2>2 DEF s
    <2> QED
      BY <1>4, <2>1, <2>2
  <1>11. ASSUME NEW a \in 1..q, NEW b \in 1..q, a < b, Len(g[a]) = Len(g[b]),
                NEW j \in J, Begins(g[b], e[j].segments)
         PROVE  \E i \in J : i < j /\ Begins(g[a], e[i].segments)
    <2>1. CASE a \in 1..p /\ j \in I
      <3>1. CASE b \in 1..p
        <4>1. Len(ns[a]) = Len(ns[b]) /\ Begins(ns[b], l[j].segments)
          BY <1>4, <1>5, <1>11, <2>1, <3>1
        <4>2. PICK i \in I : i < j /\ Begins(ns[a], l[i].segments)
          BY <1>2, <1>11, <2>1, <3>1, <4>1
        <4> QED
          BY <1>4, <1>5, <2>1, <4>2
      <3>2. CASE b > p
        <4>1. l[j].segments \in Seq(Segments)
          BY <2>1, LoggedIs DEF I
        <4>2. g[b] \in Seq(Segments) /\ Len(g[b]) > 0 /\ Begins(g[b], l[j].segments)
          BY <1>4, <1>7, <1>11, <2>1, <3>2
        <4>3. g[b] = SubSeq(l[j].segments, 1, Len(g[b])) /\ Len(g[b]) \in 1..Len(l[j].segments)
          BY <4>1, <4>2, BeginsIs
        <4>4. PICK c \in 1..p : ns[c] = g[b]
          BY <1>2, <2>1, <4>3
        <4>5. g[c] = g[b] /\ c \in 1..q /\ c # b
          BY <1>5, <1>6, <3>2, <4>4
        <4> QED
          BY <1>5, <4>5
      <3> QED
        BY <1>8, <3>1, <3>2
    <2>2. CASE a \in 1..p /\ j = k
      <3>1. PICK i \in I : Begins(ns[a], l[i].segments)
        BY <1>2, <2>2
      <3> QED
        BY <1>4, <1>5, <2>2, <3>1
    <2>3. CASE a > p
      <3>1. b > p
        BY <1>5, <1>11, <2>3
      <3>2. /\ g[a] \in Seq(Segments) /\ Begins(g[a], s)
            /\ g[b] \in Seq(Segments) /\ Begins(g[b], s)
        BY <1>7, <2>3, <3>1
      <3>3. g[a] = g[b]
        BY <1>1, <1>11, <3>2, OneBeginning
      <3>4. a = b
        BY <1>5, <3>3
      <3> QED
        BY <1>11, <3>4
    <2> QED
      BY <1>4, <1>8, <2>1, <2>2, <2>3
  <1> QED
    BY <1>5, <1>9, <1>10, <1>11 DEF NodesOf, g, e, s, m, J, q

(* The elements of a sequence.                                             *)
LEMMA ElementsAre ==
  ASSUME NEW S, NEW s \in Seq(S)
  PROVE  /\ ToSet(s) \subseteq S
         /\ \A n : n \in ToSet(s) <=> \E i \in 1..Len(s) : s[i] = n
  <1>1. DOMAIN s = 1..Len(s) /\ \A i \in 1..Len(s) : s[i] \in S
    OBVIOUS
  <1> QED
    BY <1>1 DEF ToSet

(* The root is a sequence of no segments.                                  *)
LEMMA RootIs == Root \in Seq(Segments) /\ Len(Root) = 0
  BY DEF Root

(* Every stop of a search but None is a sequence of segments.              *)
LEMMA StopsAre ==
  ASSUME NEW t, t.nodes \in Seq(Seq(Segments)), NEW n \in {Root} \cup ToSet(t.nodes)
  PROVE  n \in Seq(Segments) /\ n # None /\ n \in Stops(t)
  <1>1. n \in Seq(Segments)
    BY RootIs, ElementsAre
  <1> QED
    BY <1>1, RouterAssumption DEF Stops

\* A route registered leads to a node.
LEMMA EndsAtNode ==
  ASSUME NEW l \in Seq(Route), NEW m, NEW ns, NodesOf(ns, m, l), NEW i \in For(l, m)
  PROVE  l[i].segments \in {Root} \cup ToSet(ns)
  <1> DEFINE s == l[i].segments
  <1>1. s \in Seq(Segments)
    BY LoggedIs
  <1>2. \A c \in 1..Len(s) : \E a \in 1..Len(ns) : ns[a] = SubSeq(s, 1, c)
    BY DEF NodesOf
  <1>3. ns \in Seq(Seq(Segments))
    BY DEF NodesOf
  <1> HIDE DEF s
  <1>4. s = SubSeq(s, 1, Len(s))
    BY <1>1
  <1>5. CASE Len(s) = 0
    <2>1. s = <<>>
      BY <1>1, <1>5
    <2> QED
      BY <2>1 DEF Root, s
  <1>6. CASE Len(s) > 0
    <2>1. Len(s) \in 1..Len(s)
      BY <1>1, <1>6
    <2>2. \E a \in 1..Len(ns) : ns[a] = s
      BY <1>2, <1>4, <2>1
    <2> QED
      BY <1>3, <2>2, ElementsAre DEF s
  <1> QED
    BY <1>1, <1>5, <1>6 DEF s

(* The callbacks after a route is registered.                              *)
LEMMA AddedCallbacks ==
  ASSUME NEW l \in Seq(Route), NEW r \in Route, NEW t, TrieOf(t, r.method, l)
  PROVE  CallbacksOf(AddRoute(t, r.segments, r.callback), r.method, Append(l, r))
  <1> DEFINE s == r.segments  h == r.callback  m == r.method  u == AddRoute(t, s, h)
             e == Append(l, r)  k == Len(l) + 1  I == For(l, m)  J == For(e, m)
             A == {Root} \cup ToSet(t.nodes)  B == {Root} \cup ToSet(Grown(t, s))
  <1>1. u.nodes = Grown(t, s) /\ u.callback = [n \in B |-> Callback(t, s, h, n)]
    BY DEF AddRoute
  <1>2. /\ t.callback \in [A -> Callbacks \cup {None}]
        /\ \A n \in A :
             \/ (\A i \in I : l[i].segments # n) /\ t.callback[n] = None
             \/ \E i \in I : IsLast(l, m, n, i) /\ t.callback[n] = l[i].callback
    BY DEF TrieOf, CallbacksOf
  <1>3. Extends(e, l, r)
    BY LongerLog
  <1> HIDE DEF e
  <1>4. /\ J = I \cup {k} /\ e[k] = r /\ k \in J
        /\ \A i \in I : e[i] = l[i] /\ i < k /\ i \in Nat
    BY <1>3 DEF Extends
  <1>5. k \in Nat /\ h \in Callbacks
    BY RouteIs
  <1>6. \A i \in I : l[i].segments \in A
    BY EndsAtNode DEF TrieOf
  <1>7. \A n : Callback(t, s, h, n) = IF n = s THEN h ELSE IF n \in A THEN t.callback[n] ELSE None
    BY <1>2 DEF Callback
  <1>8. /\ e[k].segments = s /\ e[k].callback = h
        /\ \A i \in I : e[i].segments = l[i].segments /\ e[i].callback = l[i].callback
    BY <1>4
  <1> HIDE DEF k, I, J, A, B, s, h, u, m
  <1>9. u.callback \in [B -> Callbacks \cup {None}]
    <2>1. \A n \in B : Callback(t, s, h, n) \in Callbacks \cup {None}
      BY <1>2, <1>5, <1>7
    <2> QED
      BY <1>1, <2>1
  <1>10. ASSUME NEW n \in B
         PROVE  \/ (\A i \in J : e[i].segments # n) /\ u.callback[n] = None
                \/ \E i \in J : IsLast(e, m, n, i) /\ u.callback[n] = e[i].callback
    <2>1. u.callback[n] = Callback(t, s, h, n)
      BY <1>1
    <2>2. CASE n = s
      <3>1. \A j \in J : j <= k
        BY <1>4, <1>5
      <3>2. IsLast(e, m, n, k)
        BY <1>4, <1>8, <2>2, <3>1 DEF IsLast, J
      <3> QED
        BY <1>4, <1>7, <1>8, <2>1, <2>2, <3>2
    <2>3. CASE n # s /\ n \in A
      <3>1. u.callback[n] = t.callback[n]
        BY <1>7, <2>1, <2>3
      <3>2. CASE (\A i \in I : l[i].segments # n) /\ t.callback[n] = None
        BY <1>4, <1>8, <2>3, <3>1, <3>2
      <3>3. ASSUME NEW i \in I, IsLast(l, m, n, i), t.callback[n] = l[i].callback
            PROVE  i \in J /\ IsLast(e, m, n, i) /\ u.callback[n] = e[i].callback
        <4>1. l[i].segments = n /\ \A j \in I : l[j].segments = n => j <= i
          BY <3>3 DEF IsLast, I
        <4>2. \A j \in J : e[j].segments = n => j <= i
          BY <1>4, <1>8, <2>3, <4>1
        <4> QED
          BY <1>4, <1>8, <3>1, <3>3, <4>1, <4>2 DEF IsLast, J
      <3> QED
        BY <1>2, <2>3, <3>2, <3>3
    <2>4. CASE n # s /\ n \notin A
      <3>1. u.callback[n] = None
        BY <1>7, <2>1, <2>4
      <3>2. \A i \in J : e[i].segments # n
        BY <1>4, <1>6, <1>8, <2>4
      <3> QED
        BY <3>1, <3>2
    <2> QED
      BY <2>2, <2>3, <2>4
  <1> QED
    BY <1>1, <1>9, <1>10 DEF CallbacksOf, B, J, e, u, m, s, h

(* The trie after a route is registered.                                   *)
LEMMA AddedTrie ==
  ASSUME NEW l \in Seq(Route), NEW r \in Route, NEW t, TrieOf(t, r.method, l)
  PROVE  TrieOf(AddRoute(t, r.segments, r.callback), r.method, Append(l, r))
  <1>1. AddRoute(t, r.segments, r.callback).nodes = Grown(t, r.segments)
    BY DEF AddRoute
  <1> QED
    BY <1>1, AddedNodes, AddedCallbacks DEF TrieOf

(* The trie before any is.                                                 *)
LEMMA EmptyTrie == \A m : TrieOf(Created, m, <<>>)
  <1> SUFFICES ASSUME NEW m PROVE TrieOf(Created, m, <<>>)
    OBVIOUS
  <1>1. For(<<>>, m) = {}
    BY DEF For
  <1>2. Created.nodes = <<>> /\ Created.callback = [n \in {Root} |-> None]
    BY DEF Created
  <1>3. ToSet(Created.nodes) = {}
    BY <1>2 DEF ToSet
  <1>4. NodesOf(Created.nodes, m, <<>>)
    BY <1>1, <1>2 DEF NodesOf
  <1>5. CallbacksOf(Created, m, <<>>)
    BY <1>1, <1>2, <1>3 DEF CallbacksOf
  <1> QED
    BY <1>4, <1>5 DEF TrieOf

(* A child, and the routes through it.                                     *)
LEMMA ChildIs ==
  ASSUME NEW c \in Seq(Segments), NEW n \in Seq(Segments), IsChild(c, n)
  PROVE  /\ Len(c) = Len(n) + 1 /\ Begins(n, c) /\ Last(c) = c[Len(n) + 1]
         /\ \A s \in Seq(Segments) :
              Begins(c, s) <=> Begins(n, s) /\ Len(n) < Len(s) /\ s[Len(n) + 1] = Last(c)
  <1> DEFINE k == Len(n)
  <1>1. Len(c) = k + 1 /\ Begins(n, c) /\ Last(c) = c[k + 1] /\ k \in Nat
    BY BeginsIs DEF IsChild, Last
  <1>2. \A j \in 1..k : c[j] = n[j]
    BY <1>1 DEF Begins
  <1> SUFFICES ASSUME NEW s \in Seq(Segments)
               PROVE  Begins(c, s) <=> Begins(n, s) /\ k < Len(s) /\ s[k + 1] = Last(c)
    BY <1>1
  <1> HIDE DEF k
  <1>3. Len(s) \in Nat
    OBVIOUS
  <1>4. 1..k + 1 = 1..k \cup {k + 1}
    BY <1>1
  <1>5. Begins(c, s) <=> k + 1 <= Len(s) /\ \A j \in 1..k + 1 : c[j] = s[j]
    BY <1>1 DEF Begins
  <1>6. Begins(n, s) <=> k <= Len(s) /\ \A j \in 1..k : n[j] = s[j]
    BY DEF Begins, k
  <1> QED
    BY <1>1, <1>2, <1>3, <1>4, <1>5, <1>6

\* The child of n on the way to s.
LEMMA BranchIs ==
  ASSUME NEW s \in Seq(Segments), NEW n \in Seq(Segments), Begins(n, s), Len(n) < Len(s)
  PROVE  LET b == SubSeq(s, 1, Len(n) + 1) IN
         /\ b \in Seq(Segments) /\ IsChild(b, n) /\ Begins(b, s)
         /\ Last(b) = s[Len(n) + 1] /\ Len(n) + 1 \in 1..Len(s)
  <1> DEFINE k == Len(n)  b == SubSeq(s, 1, k + 1)
  <1>1. k \in Nat /\ k + 1 \in 1..Len(s) /\ k + 1 \in 0..Len(s)
    OBVIOUS
  <1>2. b \in Seq(Segments) /\ Len(b) = k + 1 /\ \A j \in 1..k + 1 : b[j] = s[j]
    BY <1>1, BeginningIs
  <1> HIDE DEF b
  <1>3. Begins(n, b)
    BY <1>1, <1>2 DEF Begins
  <1>4. IsChild(b, n)
    BY <1>2, <1>3, BeginsIs DEF IsChild
  <1>5. Begins(b, s)
    BY <1>1, <1>2 DEF Begins
  <1>6. Last(b) = s[k + 1]
    BY <1>1, <1>2 DEF Last
  <1> QED
    BY <1>1, <1>2, <1>4, <1>5, <1>6 DEF b

-----------------------------------------------------------------------------
(* The search and the choice among the routes, turn by turn.               *)

(* What Narrow works on.                                                   *)
Choice == [depth : Nat, of : SUBSET Nat]

\* The routes of method m through the node n.
Via(m, n) == {i \in For(log, m) : Begins(n, log[i].segments)}

\* The choice st has the routes that the search at stop n has before it.
Agrees(st, m, n) ==
  IF n = None THEN st.of = {} ELSE st.depth = Len(n) /\ st.of = Via(m, n)

\* Those of st that are longer, and of them those that fit x.
Longest(st) == {i \in st.of : Len(log[i].segments) > st.depth}
(* Those of them that fit x.                                               *)
Fitting(st, x) == {i \in Longest(st) : Fits(log[i].segments[st.depth + 1], x)}

(* Narrow follows the oldest of the routes that fit.                       *)
LEMMA NarrowIs ==
  ASSUME NEW st \in Choice, NEW x
  PROVE  /\ Longest(st) = {} => Narrow(st, x) = st
         /\ Longest(st) # {} /\ Fitting(st, x) = {} =>
              Narrow(st, x) = [depth |-> st.depth + 1, of |-> {}]
         /\ Fitting(st, x) # {} =>
              \E f \in Fitting(st, x) :
                /\ \A j \in Fitting(st, x) : f <= j
                /\ Narrow(st, x) =
                     [depth |-> st.depth + 1,
                      of |-> {i \in Longest(st) : log[i].segments[st.depth + 1] = log[f].segments[st.depth + 1]}]
  <1> DEFINE T == Fitting(st, x)  f == CHOOSE i \in T : \A j \in T : i <= j
  <1>1. Narrow(st, x) =
          IF Longest(st) = {} THEN st
          ELSE [depth |-> st.depth + 1,
                of |-> IF T = {} THEN {}
                       ELSE {i \in Longest(st) : log[i].segments[st.depth + 1] = log[f].segments[st.depth + 1]}]
    BY DEF Narrow, Longer, Longest, Fitting
  <1>2. T \in SUBSET Nat /\ (T # {} => Longest(st) # {})
    BY DEF Fitting, Longest, Choice
  <1> HIDE DEF T
  <1>3. T # {} => f \in T /\ \A j \in T : f <= j
    BY <1>2, LeastIs
  <1> HIDE DEF f
  <1> QED
    BY <1>1, <1>2, <1>3 DEF T

(* Narrow returns a choice.                                                *)
LEMMA NarrowIn ==
  ASSUME NEW st \in Choice, NEW x
  PROVE  Narrow(st, x) \in Choice
  <1>1. st.depth + 1 \in Nat /\ Longest(st) \in SUBSET Nat
    BY DEF Choice, Longest
  <1>2. CASE Longest(st) = {}
    BY <1>2, NarrowIs
  <1>3. CASE Longest(st) # {} /\ Fitting(st, x) = {}
    BY <1>1, <1>3, NarrowIs DEF Choice
  <1>4. CASE Fitting(st, x) # {}
    <2>1. PICK f : Narrow(st, x) =
                     [depth |-> st.depth + 1,
                      of |-> {i \in Longest(st) : log[i].segments[st.depth + 1] = log[f].segments[st.depth + 1]}]
      BY <1>4, NarrowIs
    <2> QED
      BY <1>1, <2>1 DEF Choice
  <1> QED
    BY <1>2, <1>3, <1>4

(* One turn of the search and one of the choice lead to the same routes.   *)
LEMMA AgreesStep ==
  ASSUME log \in Seq(Route), NEW m, NEW t, NodesOf(t.nodes, m, log),
         NEW n \in Stops(t), NEW st \in Choice, Agrees(st, m, n), NEW x
  PROVE  Agrees(Narrow(st, x), m, Descend(t, n, x))
  <1>1. CASE n = None
    <2>1. st.of = {} /\ Longest(st) = {}
      BY <1>1 DEF Agrees, Longest
    <2>2. Narrow(st, x) = st /\ Descend(t, n, x) = None
      BY <1>1, <2>1, NarrowIs DEF Descend
    <2> QED
      BY <2>1, <2>2 DEF Agrees
  <1>2. CASE n # None
    <2> DEFINE ns == t.nodes  k == Len(n)  I == For(log, m)  L == Longest(st)
               T == Fitting(st, x)
               next == Narrow(st, x)
    <2>1. /\ ns \in Seq(Seq(Segments))
          /\ \A a, b \in 1..Len(ns) : ns[a] = ns[b] => a = b
          /\ \A a \in 1..Len(ns) : \E i \in I : Begins(ns[a], log[i].segments)
          /\ \A i \in I : \A c \in 1..Len(log[i].segments) :
               \E a \in 1..Len(ns) : ns[a] = SubSeq(log[i].segments, 1, c)
          /\ \A a, b \in 1..Len(ns) : a < b /\ Len(ns[a]) = Len(ns[b]) =>
               \A j \in I : Begins(ns[b], log[j].segments) =>
                 \E i \in I : i < j /\ Begins(ns[a], log[i].segments)
      BY DEF NodesOf
    <2>2. n \in Seq(Segments) /\ k \in Nat
      BY <1>2, <2>1, StopsAre DEF Stops
    <2>3. st.depth = k /\ st.of = {i \in I : Begins(n, log[i].segments)}
      BY <1>2 DEF Agrees, Via
    <2>4. /\ I \in SUBSET Nat
          /\ \A i \in I : log[i].segments \in Seq(Segments)
      BY LoggedIs
    <2>5. L = {i \in I : Begins(n, log[i].segments) /\ Len(log[i].segments) > k}
      BY <2>3 DEF Longest
    <2>6. T = {i \in L : Fits(log[i].segments[k + 1], x)}
      BY <2>3 DEF Fitting
    \* A child of n, and the routes through it.
    <2>7. ASSUME NEW a \in 1..Len(ns), IsChild(ns[a], n), NEW i \in I
          PROVE  /\ ns[a] \in Seq(Segments) /\ Len(ns[a]) = k + 1
                 /\ Begins(ns[a], log[i].segments) <=>
                      i \in L /\ log[i].segments[k + 1] = Last(ns[a])
      <3>1. ns[a] \in Seq(Segments) /\ log[i].segments \in Seq(Segments)
        BY <2>1, <2>4
      <3>2. /\ Len(ns[a]) = k + 1
            /\ Begins(ns[a], log[i].segments) <=>
                 /\ Begins(n, log[i].segments) /\ k < Len(log[i].segments)
                 /\ log[i].segments[k + 1] = Last(ns[a])
        BY <2>2, <2>7, <3>1, ChildIs
      <3>3. k < Len(log[i].segments) <=> Len(log[i].segments) > k
        BY <2>2, <3>1
      <3> QED
        BY <2>5, <3>1, <3>2, <3>3
    \* A route beyond n goes through a child of n.
    <2>8. ASSUME NEW i \in L
          PROVE  \E a \in 1..Len(ns) :
                   /\ IsChild(ns[a], n) /\ Begins(ns[a], log[i].segments)
                   /\ Last(ns[a]) = log[i].segments[k + 1]
      <3> DEFINE s == log[i].segments  b == SubSeq(s, 1, k + 1)
      <3>1. i \in I /\ s \in Seq(Segments) /\ Begins(n, s) /\ k < Len(s)
        BY <2>2, <2>4, <2>5
      <3>2. IsChild(b, n) /\ Begins(b, s) /\ Last(b) = s[k + 1] /\ k + 1 \in 1..Len(s)
        BY <2>2, <3>1, BranchIs
      <3>3. \E a \in 1..Len(ns) : ns[a] = b
        BY <2>1, <3>1, <3>2
      <3> QED
        BY <3>2, <3>3
    <2> HIDE DEF ns, k, I, L, T, next
    <2>9. CASE (\A i \in 1..Len(ns) : ~IsChild(ns[i], n)) /\ Descend(t, n, x) = n
      <3>1. L = {}
        BY <2>8, <2>9
      <3>2. next = st
        BY <3>1, NarrowIs DEF L, next
      <3> QED
        BY <2>9, <3>2 DEF next
    <2>10. CASE /\ \E i \in 1..Len(ns) : IsChild(ns[i], n)
                /\ \A i \in 1..Len(ns) : ~Receives(t, i, n, x)
                /\ Descend(t, n, x) = None
      <3>1. L # {}
        BY <2>1, <2>7, <2>10
      <3>2. T = {}
        <4> SUFFICES ASSUME NEW i \in T PROVE FALSE
          OBVIOUS
        <4>1. i \in L /\ Fits(log[i].segments[k + 1], x)
          BY <2>6
        <4>2. PICK a \in 1..Len(ns) : IsChild(ns[a], n) /\ Last(ns[a]) = log[i].segments[k + 1]
          BY <2>8, <4>1
        <4> QED
          BY <2>10, <4>1, <4>2 DEF Receives, Takes, Fits, ns
      <3>3. next.of = {}
        BY <3>1, <3>2, NarrowIs DEF L, T, next
      <3> QED
        BY <2>10, <3>3 DEF Agrees, next
    <2>11. ASSUME NEW a \in 1..Len(ns), Receives(t, a, n, x),
                  \A j \in 1..Len(ns) : Receives(t, j, n, x) => a <= j,
                  Descend(t, n, x) = ns[a]
           PROVE  Agrees(next, m, ns[a])
      <3>1. IsChild(ns[a], n) /\ Takes(Last(ns[a]), x)
        BY <2>11 DEF Receives, ns
      <3>2. PICK i \in I : Begins(ns[a], log[i].segments)
        BY <2>1
      <3>3. i \in T
        BY <2>6, <2>7, <3>1, <3>2 DEF Takes, Fits
      <3>4. PICK f \in T :
              /\ \A j \in T : f <= j
              /\ next = [depth |-> st.depth + 1,
                         of |-> {j \in L : log[j].segments[st.depth + 1] = log[f].segments[st.depth + 1]}]
        BY <3>3, NarrowIs DEF T, L, next
      <3>5. f \in L /\ f \in I /\ Fits(log[f].segments[k + 1], x) /\ f \in Nat
        BY <2>4, <2>5, <2>6
      <3>6. PICK b \in 1..Len(ns) :
              /\ IsChild(ns[b], n) /\ Begins(ns[b], log[f].segments)
              /\ Last(ns[b]) = log[f].segments[k + 1]
        BY <2>8, <3>5
      <3>7. a <= b
        BY <2>11, <3>5, <3>6 DEF Receives, Takes, Fits, ns
      <3>8. ~(a < b)
        <4> SUFFICES ASSUME a < b PROVE FALSE
          OBVIOUS
        <4>1. Len(ns[a]) = Len(ns[b])
          BY <2>7, <3>1, <3>5, <3>6
        <4>2. PICK j \in I : j < f /\ Begins(ns[a], log[j].segments)
          BY <2>1, <3>5, <3>6, <4>1
        <4>3. j \in T
          BY <2>6, <2>7, <3>1, <4>2 DEF Takes, Fits
        <4>4. f <= j /\ j \in Nat
          BY <2>4, <3>4, <4>2, <4>3
        <4> QED
          BY <3>5, <4>2, <4>4
      <3>9. a = b
        BY <3>7, <3>8
      <3>10. Last(ns[a]) = log[f].segments[k + 1]
        BY <3>6, <3>9
      <3>11. next.depth = k + 1 /\ next.of = {j \in L : log[j].segments[k + 1] = Last(ns[a])}
        BY <2>3, <3>4, <3>10
      <3>12. next.of = {j \in I : Begins(ns[a], log[j].segments)}
        BY <2>5, <2>7, <3>1, <3>11
      <3>13. ns[a] # None /\ Len(ns[a]) = k + 1
        BY <2>1, <2>7, <3>1, <3>2, RouterAssumption
      <3> QED
        BY <3>11, <3>12, <3>13 DEF Agrees, Via, I
    <2> QED
      BY <1>2, <2>1, <2>9, <2>10, <2>11, DescendIs DEF ns, next
  <1> QED
    BY <1>1, <1>2

(* The choice to begin with.                                               *)
All(m) == [depth |-> 0, of |-> {i \in DOMAIN log : log[i].method = m}]

\* v[i] is the choice after i segments of u.
ChoiceTurns(m, u, v) ==
  /\ v \in [0..Len(u) -> Choice]
  /\ v[0] = All(m)
  /\ \A i \in 1..Len(u) : v[i] = Narrow(v[i - 1], u[i])
  /\ Chosen(m, u) = {i \in v[Len(u)].of : Len(log[i].segments) = v[Len(u)].depth}

(* The choices made for u, turn by turn.                                   *)
LEMMA ChosenIs ==
  ASSUME log \in Seq(Route), NEW m, NEW S, NEW u \in Seq(S)
  PROVE  \E v : ChoiceTurns(m, u, v)
  <1> DEFINE k == Len(u)  A == Choice  base == All(m)
             After(h) == [T \in SUBSET DOMAIN u |->
                           IF T = {} THEN base ELSE LET x == Max(T) IN Narrow(h[T \ {x}], u[x])]
             F == [a \in A |-> [i \in 1..k |-> Narrow(a, u[i])]]
             f == CHOOSE h : h = After(h)
             end == f[DOMAIN u]
  <1>1. Chosen(m, u) = {i \in end.of : Len(log[i].segments) = end.depth}
    BY DEF Chosen, FoldLeft, MapThenFoldSet, All
  <1>2. DOMAIN u = 1..k /\ k \in Nat /\ base \in A
    <2>1. {i \in DOMAIN log : log[i].method = m} \in SUBSET Nat
      OBVIOUS
    <2> QED
      BY <2>1 DEF All, Choice
  <1>3. F \in [A -> [1..k -> A]]
    BY NarrowIn
  <1>4. \A a \in A : \A i \in 1..k : F[a][i] = Narrow(a, u[i])
    OBVIOUS
  <1> HIDE DEF k, A, F, After, base
  <1>5. PICK h \in [SUBSET (1..k) -> A] : Folds(F, base, k, h)
    BY <1>2, <1>3, FoldExists
  <1>6. h = After(h)
    <2>1. ASSUME NEW T \in SUBSET (1..k), T # {} PROVE h[T] = Narrow(h[T \ {Max(T)}], u[Max(T)])
      <3>1. Max(T) \in 1..k
        BY <1>2, <2>1, MaxIn
      <3>2. h[T \ {Max(T)}] \in A
        OBVIOUS
      <3> QED
        BY <1>4, <1>5, <2>1, <3>1, <3>2 DEF Folds
    <2>2. h[{}] = base
      BY <1>5 DEF Folds
    <2> QED
      BY <1>2, <2>1, <2>2 DEF After
  <1>7. f = After(f)
    BY <1>6
  <1> HIDE DEF f
  <1>8. Unfolds(F, A, base, k, f)
    <2>1. f[{}] = base
      BY <1>7 DEF After
    <2>2. ASSUME NEW T \in SUBSET (1..k), T # {}, f[T \ {Max(T)}] \in A
          PROVE  f[T] = F[f[T \ {Max(T)}]][Max(T)]
      <3>1. Max(T) \in 1..k
        BY <1>2, <2>2, MaxIn
      <3>2. f[T] = Narrow(f[T \ {Max(T)}], u[Max(T)])
        BY <1>2, <1>7, <2>2 DEF After
      <3> QED
        BY <1>4, <2>2, <3>1, <3>2
    <2> QED
      BY <1>2, <1>3, <2>1, <2>2 DEF Unfolds
  <1>9. PICK v : Turns(F, A, base, k, f, v)
    BY <1>8, FoldTurns
  <1>10. v \in [0..k -> A] /\ v[0] = base /\ v[k] = end
    BY <1>2, <1>9 DEF Turns
  <1>11. \A i \in 1..k : v[i] = Narrow(v[i - 1], u[i])
    <2> SUFFICES ASSUME NEW i \in 1..k PROVE v[i] = Narrow(v[i - 1], u[i])
      OBVIOUS
    <2>1. i - 1 \in 0..k
      BY <1>2, IntervalIs
    <2> QED
      BY <1>4, <1>9, <1>10, <2>1 DEF Turns
  <1> HIDE DEF end
  <1> QED
    BY <1>1, <1>10, <1>11 DEF ChoiceTurns, k, A, base

(* Where the search ends, and the routes the choice is left with.          *)
LEMMA WalkAgrees ==
  ASSUME log \in Seq(Route), NEW m, NEW t, NodesOf(t.nodes, m, log), NEW u \in Seq(Segments)
  PROVE  /\ Walk(t, u) = None => Chosen(m, u) = {}
         /\ Walk(t, u) # None =>
              /\ Walk(t, u) \in {Root} \cup ToSet(t.nodes)
              /\ Chosen(m, u) = {i \in For(log, m) : log[i].segments = Walk(t, u)}
  <1>1. t.nodes \in Seq(Seq(Segments))
    BY DEF NodesOf
  <1>2. PICK w : Trail(t, u, w) /\ Walk(t, u) = w[Len(u)]
    BY <1>1, WalkIs
  <1>3. PICK v : ChoiceTurns(m, u, v)
    BY ChosenIs
  <1> DEFINE k == Len(u)  G == {i \in 0..k : Agrees(v[i], m, w[i])}
  <1>4. k \in Nat /\ k \in 0..k /\ 0 \in 0..k
    OBVIOUS
  <1>5. 0 \in G
    <2>1. w[0] = Root /\ v[0] = All(m)
      BY <1>2, <1>3 DEF Trail, ChoiceTurns
    <2>2. Root # None /\ Len(Root) = 0 /\ Root \in Seq(Segments)
      BY RootIs, RouterAssumption
    <2>3. \A i \in For(log, m) : Begins(Root, log[i].segments)
      <3>1. \A i \in For(log, m) : log[i].segments \in Seq(Segments)
        BY LoggedIs
      <3> QED
        BY <2>2, <3>1 DEF Begins
    <2>4. DOMAIN log = 1..Len(log)
      OBVIOUS
    <2>5. Agrees(v[0], m, w[0])
      BY <2>1, <2>2, <2>3, <2>4 DEF Agrees, All, Via, For
    <2> QED
      BY <1>4, <2>5
  <1>6. ASSUME NEW i \in 1..k, i - 1 \in G PROVE i \in G
    <2>1. i - 1 \in 0..k /\ i \in 0..k
      BY <1>4, IntervalIs
    <2>2. w[i - 1] \in Stops(t) /\ v[i - 1] \in Choice
      BY <1>2, <1>3, <2>1 DEF Trail, ChoiceTurns
    <2>3. w[i] = Descend(t, w[i - 1], u[i]) /\ v[i] = Narrow(v[i - 1], u[i])
      BY <1>2, <1>3 DEF Trail, ChoiceTurns
    <2>4. Agrees(v[i - 1], m, w[i - 1])
      BY <1>6
    <2>5. Agrees(v[i], m, w[i])
      BY <2>2, <2>3, <2>4, AgreesStep
    <2> QED
      BY <2>1, <2>5
  <1>7. Agrees(v[k], m, w[k])
    <2> HIDE DEF G
    <2>1. 0..k \subseteq G
      BY <1>4, <1>5, <1>6, EachTurn
    <2> QED
      BY <1>4, <2>1 DEF G
  <1>8. Chosen(m, u) = {i \in v[k].of : Len(log[i].segments) = v[k].depth}
    BY <1>3 DEF ChoiceTurns
  <1>9. w[k] \in Stops(t) /\ w[k] = Walk(t, u)
    BY <1>2, <1>4 DEF Trail
  <1> DEFINE n == Walk(t, u)
  <1>10. CASE n = None
    BY <1>7, <1>8, <1>9, <1>10 DEF Agrees
  <1>11. CASE n # None
    <2>1. n \in {Root} \cup ToSet(t.nodes) /\ n \in Seq(Segments)
      BY <1>1, <1>9, <1>11, StopsAre DEF Stops
    <2>2. v[k].depth = Len(n) /\ v[k].of = {i \in For(log, m) : Begins(n, log[i].segments)}
      BY <1>7, <1>9, <1>11 DEF Agrees, Via
    <2> HIDE DEF n
    <2>3. ASSUME NEW i \in For(log, m)
          PROVE  Begins(n, log[i].segments) /\ Len(log[i].segments) = Len(n) <=> log[i].segments = n
      <3>1. log[i].segments \in Seq(Segments)
        BY LoggedIs
      <3> QED
        BY <2>1, <3>1, SeqEqual DEF Begins
    <2>4. Chosen(m, u) = {i \in For(log, m) : log[i].segments = n}
      BY <1>8, <2>2, <2>3
    <2> QED
      BY <1>11, <2>1, <2>4 DEF n
  <1> QED
    BY <1>10, <1>11

(* In one trie, the search finds what the routes chosen say.               *)
LEMMA FindIs ==
  ASSUME log \in Seq(Route), NEW m, NEW t, TrieOf(t, m, log), NEW u \in Seq(Segments)
  PROVE  FindHandler(t, u) =
           LET C == Chosen(m, u) IN
             IF C = {} THEN None ELSE log[CHOOSE i \in C : \A j \in C : j <= i].callback
  <1> DEFINE n == Walk(t, u)  C == Chosen(m, u)  I == For(log, m)
  <1>1. NodesOf(t.nodes, m, log) /\ CallbacksOf(t, m, log)
    BY DEF TrieOf
  <1>2. n = None => C = {}
    BY <1>1, WalkAgrees
  <1>3. n # None => n \in {Root} \cup ToSet(t.nodes) /\ C = {i \in I : log[i].segments = n}
    BY <1>1, WalkAgrees
  <1>4. FindHandler(t, u) = IF n = None THEN None ELSE t.callback[n]
    BY DEF FindHandler
  <1>5. I \in SUBSET Nat
    BY LoggedIs
  <1> SUFFICES FindHandler(t, u) =
                 IF C = {} THEN None ELSE log[CHOOSE i \in C : \A j \in C : j <= i].callback
    OBVIOUS
  <1> HIDE DEF n, C
  <1>6. CASE n = None
    BY <1>2, <1>4, <1>6
  <1>7. CASE n # None
    <2>1. \/ (\A i \in I : log[i].segments # n) /\ t.callback[n] = None
          \/ \E i \in I : IsLast(log, m, n, i) /\ t.callback[n] = log[i].callback
      BY <1>1, <1>3, <1>7 DEF CallbacksOf
    <2>2. CASE (\A i \in I : log[i].segments # n) /\ t.callback[n] = None
      BY <1>3, <1>4, <1>7, <2>2
    <2>3. ASSUME NEW i \in I, IsLast(log, m, n, i), t.callback[n] = log[i].callback
          PROVE  FindHandler(t, u) = log[CHOOSE c \in C : \A j \in C : j <= c].callback /\ C # {}
      <3>1. i \in C /\ \A j \in C : j <= i
        BY <1>3, <1>7, <2>3 DEF IsLast
      <3>2. C \in SUBSET Nat
        BY <1>3, <1>5, <1>7
      <3>3. \A c \in C : (\A j \in C : j <= c) => c = i
        BY <3>1, <3>2
      <3>4. (CHOOSE c \in C : \A j \in C : j <= c) = i
        BY <3>1, <3>3
      <3> QED
        BY <1>4, <1>7, <2>3, <3>1, <3>4
    <2> QED
      BY <2>1, <2>2, <2>3, <1>3, <1>4, <1>7
  <1> QED
    BY <1>6, <1>7

(* A search stops at a node that fits a beginning of what is searched for. *)
LEMMA StopFits ==
  ASSUME NEW t, t.nodes \in Seq(Seq(Segments)), NEW u \in Seq(Segments), Walk(t, u) # None
  PROVE  Match(Walk(t, u), u)
  <1>1. PICK w : Trail(t, u, w) /\ Walk(t, u) = w[Len(u)]
    BY WalkIs
  <1> DEFINE k == Len(u)  ns == t.nodes
             Leaf(n) == \A a \in 1..Len(ns) : ~IsChild(ns[a], n)
             Fit(i) == w[i] # None => Match(w[i], u) /\ Len(w[i]) <= i /\ (Len(w[i]) = i \/ Leaf(w[i]))
             G == {i \in 0..k : Fit(i)}
  <1>2. k \in Nat /\ k \in 0..k /\ 0 \in 0..k
    OBVIOUS
  <1>3. w[0] = Root /\ w \in [0..k -> Stops(t)] /\ \A i \in 1..k : w[i] = Descend(t, w[i - 1], u[i])
    BY <1>1 DEF Trail
  <1>4. 0 \in G
    <2>1. Match(Root, u) /\ Len(Root) = 0
      BY RootIs DEF Match
    <2> QED
      BY <1>2, <1>3, <2>1
  <1>5. ASSUME NEW i \in 1..k, i - 1 \in G PROVE i \in G
    <2> DEFINE n == w[i - 1]  x == u[i]  j == i - 1
    <2>1. j \in 0..k /\ i \in 0..k /\ j \in Nat /\ i = j + 1
      BY <1>2, IntervalIs
    <2>2. w[i] = Descend(t, n, x) /\ n \in Stops(t)
      BY <1>3, <2>1
    <2>3. CASE n = None
      BY <2>1, <2>2, <2>3 DEF Descend
    <2>4. CASE n # None
      <3>1. n \in Seq(Segments)
        BY <2>2, <2>4, StopsAre DEF Stops
      <3>2. Match(n, u) /\ Len(n) <= j /\ (Len(n) = j \/ Leaf(n))
        BY <1>5, <2>4
      <3>3. Len(n) \in Nat
        BY <3>1
      <3> HIDE DEF n, x, j
      <3>4. ASSUME Leaf(n), Descend(t, n, x) = n PROVE Fit(i)
        <4>1. w[i] = n /\ Len(n) <= i
          BY <2>1, <2>2, <3>2, <3>3, <3>4
        <4> HIDE DEF Leaf
        <4> QED
          BY <3>2, <3>4, <4>1
      <3>5. ASSUME Descend(t, n, x) = None PROVE Fit(i)
        BY <2>2, <3>5
      <3>6. ASSUME NEW a \in 1..Len(ns), Receives(t, a, n, x), Descend(t, n, x) = ns[a]
            PROVE  Fit(i)
        <4> DEFINE c == ns[a]
        <4>1. c \in Seq(Segments) /\ IsChild(c, n) /\ Takes(Last(c), x) /\ ~Leaf(n)
          BY <3>6 DEF Receives
        <4>2. Len(n) = j
          BY <3>2, <4>1
        <4>3. Len(c) = i /\ Begins(n, c) /\ Last(c) = c[i]
          BY <2>1, <3>1, <4>1, <4>2, ChildIs
        <4> HIDE DEF c, Leaf
        <4>4. \A b \in 1..j : c[b] = n[b] /\ Fits(n[b], u[b])
          BY <3>2, <4>2, <4>3 DEF Begins, Match
        <4>5. \A b \in 1..i : b \in 1..j \/ b = i
          BY <2>1
        <4>6. Fits(c[i], u[i])
          BY <4>1, <4>3 DEF Takes, Fits, x
        <4>7. Match(c, u)
          <5>1. \A b \in 1..i : Fits(c[b], u[b])
            BY <4>4, <4>5, <4>6
          <5>2. Len(c) = i /\ i <= Len(u)
            BY <4>3
          <5> QED
            BY <5>1, <5>2 DEF Match
        <4>8. w[i] = c
          BY <2>2, <3>6 DEF c
        <4> QED
          BY <2>1, <4>3, <4>7, <4>8
      <3>7. Fit(i)
        BY <2>4, <3>4, <3>5, <3>6, <2>1, <2>2, <3>2, <3>3, DescendIs DEF n
      <3> QED
        BY <2>1, <3>7
    <2> QED
      BY <2>3, <2>4
  <1>6. Fit(k)
    <2> HIDE DEF G, Fit
    <2>1. 0..k \subseteq G
      BY <1>2, <1>4, <1>5, EachTurn
    <2> QED
      BY <1>2, <2>1 DEF G
  <1> QED
    BY <1>1, <1>6

\* The node n has no child.
Leaf(t, n) == \A a \in 1..Len(t.nodes) : ~IsChild(t.nodes[a], n)

(* A search that has failed, or reached a leaf, stays where it is.         *)
LEMMA SearchStays ==
  ASSUME NEW t, t.nodes \in Seq(Seq(Segments)), NEW u \in Seq(Segments), NEW w,
         Trail(t, u, w), NEW i \in 0..Len(u), w[i] = None \/ Leaf(t, w[i])
  PROVE  w[Len(u)] = w[i]
  <1> DEFINE k == Len(u)  G == {j \in 0..k : j >= i => w[j] = w[i]}
  <1>1. k \in Nat /\ k \in 0..k /\ 0 \in 0..k /\ i \in Nat
    OBVIOUS
  <1>2. 0 \in G
    <2>1. 0 >= i => i = 0
      BY <1>1
    <2> QED
      BY <1>1, <2>1
  <1>3. ASSUME NEW j \in 1..k, j - 1 \in G PROVE j \in G
    <2>1. j - 1 \in 0..k /\ j \in 0..k
      BY <1>1, IntervalIs
    <2>2. CASE ~(j >= i)
      BY <2>1, <2>2
    <2>3. CASE j = i
      BY <2>1, <2>3
    <2>4. CASE j >= i /\ j # i
      <3>1. j - 1 >= i
        BY <1>1, <2>4
      <3>2. w[j - 1] = w[i]
        BY <1>3, <3>1
      <3>3. w[j] = Descend(t, w[i], u[j])
        BY <3>2 DEF Trail
      <3>4. w[i] = None => Descend(t, w[i], u[j]) = None
        BY DEF Descend
      <3>5. w[i] # None => Descend(t, w[i], u[j]) = w[i]
        BY DescendIs DEF Leaf, Receives
      <3>6. w[j] = w[i]
        BY <3>3, <3>4, <3>5
      <3> QED
        BY <2>1, <3>6
    <2> QED
      BY <2>2, <2>3, <2>4
  <1>4. k \in G
    <2> HIDE DEF G
    <2> QED
      BY <1>1, <1>2, <1>3, EachTurn
  <1>5. k >= i
    OBVIOUS
  <1> QED
    BY <1>4, <1>5

\* Nodes in order.
LEMMA KeptNodes ==
  ASSUME NEW l, NEW m, NEW t, NodesOf(t.nodes, m, l), NEW s \in Seq(Segments), NEW h
  PROVE  /\ AddRoute(t, s, h).nodes = Grown(t, s)
         /\ GrownFrom(t.nodes, Grown(t, s), s, Len(s))
  <1>1. /\ t.nodes \in Seq(Seq(Segments))
        /\ \A a, b \in 1..Len(t.nodes) : t.nodes[a] = t.nodes[b] => a = b
    BY DEF NodesOf
  <1> QED
    BY <1>1, GrownIs DEF AddRoute

(* One turn of a search, before and after s is registered.                 *)
LEMMA SameTurn ==
  ASSUME NEW t, NEW v, NEW s \in Seq(Segments), t.nodes \in Seq(Seq(Segments)),
         GrownFrom(t.nodes, v.nodes, s, Len(s)),
         NEW n \in Seq(Segments), n # None, NEW x, Descend(t, n, x) # None,
         Leaf(t, n) => ~IsPrefix(n, s)
  PROVE  Descend(v, n, x) = Descend(t, n, x)
  <1> DEFINE ns == t.nodes  g == v.nodes  p == Len(ns)  q == Len(g)
  <1>1. /\ g \in Seq(Seq(Segments)) /\ p <= q /\ p \in Nat /\ q \in Nat
        /\ \A j \in 1..p : g[j] = ns[j]
        /\ \A j \in 1..q : j > p => \E d \in 1..Len(s) : g[j] = SubSeq(s, 1, d)
    BY DEF GrownFrom
  <1>2. (\A j \in 1..p : j \in 1..q) /\ (\A j \in 1..q : j \in 1..p \/ j > p)
    BY <1>1
  <1>3. \A j \in 1..p : Receives(v, j, n, x) <=> Receives(t, j, n, x)
    BY <1>1 DEF Receives
  <1>4. CASE Leaf(t, n) /\ Descend(t, n, x) = n
    <2>1. ASSUME NEW a \in 1..q, IsChild(g[a], n) PROVE FALSE
      <3>1. CASE a \in 1..p
        BY <1>1, <1>4, <2>1, <3>1 DEF Leaf
      <3>2. CASE a > p
        <4>1. PICK d \in 1..Len(s) : g[a] = SubSeq(s, 1, d)
          BY <1>1, <3>2
        <4>2. d \in 0..Len(s)
          OBVIOUS
        <4>3. g[a] \in Seq(Segments) /\ Begins(g[a], s)
          BY <4>1, <4>2, BeginningBegins
        <4>4. Begins(n, s)
          BY <2>1, <4>3, ChildIs
        <4> QED
          BY <1>4, <4>4, BeginsIs
      <3> QED
        BY <1>2, <3>1, <3>2
    <2> QED
      BY <1>1, <1>4, <2>1, DescendIs DEF Receives
  <1>5. ASSUME NEW a \in 1..p, Receives(t, a, n, x),
               \A j \in 1..p : Receives(t, j, n, x) => a <= j,
               Descend(t, n, x) = ns[a]
        PROVE  Descend(v, n, x) = ns[a]
    <2>1. a \in 1..q /\ Receives(v, a, n, x) /\ IsChild(g[a], n)
      BY <1>2, <1>3, <1>5 DEF Receives
    <2>2. PICK b \in 1..q : /\ Receives(v, b, n, x)
                            /\ \A j \in 1..q : Receives(v, j, n, x) => b <= j
                            /\ Descend(v, n, x) = g[b]
      BY <1>1, <2>1, DescendIs
    <2>3. b <= a
      BY <2>1, <2>2
    <2>4. b \in 1..p
      BY <1>1, <2>3
    <2>5. a <= b
      BY <1>3, <1>5, <2>2, <2>4
    <2>6. a = b
      BY <2>3, <2>5
    <2> QED
      BY <1>1, <2>2, <2>6
  <1>6. \/ Leaf(t, n) /\ Descend(t, n, x) = n
        \/ \E a \in 1..p :
             /\ Receives(t, a, n, x) /\ \A j \in 1..p : Receives(t, j, n, x) => a <= j
             /\ Descend(t, n, x) = ns[a]
    BY DescendIs DEF Leaf
  <1> HIDE DEF p, ns
  <1> QED
    BY <1>4, <1>5, <1>6

(* A whole search, before and after s is registered.                       *)
LEMMA SameWalk ==
  ASSUME NEW t, NEW v, NEW s \in Seq(Segments), t.nodes \in Seq(Seq(Segments)),
         GrownFrom(t.nodes, v.nodes, s, Len(s)), NEW u \in Seq(Segments),
         Walk(t, u) # None, ~IsPrefix(Walk(t, u), s)
  PROVE  Walk(v, u) = Walk(t, u)
  <1>1. v.nodes \in Seq(Seq(Segments))
    BY DEF GrownFrom
  <1>2. PICK w : Trail(t, u, w) /\ Walk(t, u) = w[Len(u)]
    BY WalkIs
  <1>3. PICK y : Trail(v, u, y) /\ Walk(v, u) = y[Len(u)]
    BY <1>1, WalkIs
  <1> DEFINE k == Len(u)  G == {i \in 0..k : y[i] = w[i]}
  <1>4. k \in Nat /\ k \in 0..k /\ 0 \in 0..k
    OBVIOUS
  <1>5. 0 \in G
    BY <1>2, <1>3, <1>4 DEF Trail
  <1>6. ASSUME NEW i \in 1..k, i - 1 \in G PROVE i \in G
    <2> DEFINE n == w[i - 1]
    <2>1. i - 1 \in 0..k /\ i \in 0..k
      BY <1>4, IntervalIs
    <2>2. w[i] = Descend(t, n, u[i]) /\ y[i] = Descend(v, n, u[i]) /\ n \in Stops(t)
      BY <1>2, <1>3, <1>6, <2>1 DEF Trail
    <2>3. \A j \in 0..k : w[j] # None
      BY <1>2, SearchStays
    <2>4. Leaf(t, n) => ~IsPrefix(n, s)
      BY <1>2, <2>1, SearchStays
    <2>5. n # None /\ Descend(t, n, u[i]) # None
      BY <2>1, <2>2, <2>3
    <2>6. n \in Seq(Segments)
      BY <2>2, <2>5, StopsAre DEF Stops
    <2> HIDE DEF n
    <2>7. Descend(v, n, u[i]) = Descend(t, n, u[i])
      BY <2>4, <2>5, <2>6, SameTurn
    <2> QED
      BY <2>1, <2>2, <2>7
  <1>7. k \in G
    <2> HIDE DEF G
    <2> QED
      BY <1>4, <1>5, <1>6, EachTurn
  <1> QED
    BY <1>2, <1>3, <1>7

(* Who loses a URI when a route is registered.                             *)
LEMMA KeptHandler ==
  ASSUME NEW l, NEW m, NEW t, TrieOf(t, m, l), NEW s \in Seq(Segments), NEW h,
         NEW u \in Seq(Segments), FindHandler(t, u) # None, ~IsPrefix(Walk(t, u), s)
  PROVE  FindHandler(AddRoute(t, s, h), u) = FindHandler(t, u)
  <1> DEFINE v == AddRoute(t, s, h)  n == Walk(t, u)
  <1>1. NodesOf(t.nodes, m, l) /\ t.nodes \in Seq(Seq(Segments))
    BY DEF TrieOf, NodesOf
  <1>2. v.nodes = Grown(t, s) /\ GrownFrom(t.nodes, v.nodes, s, Len(s))
    BY <1>1, KeptNodes
  <1>3. n # None /\ FindHandler(t, u) = t.callback[n]
    BY DEF FindHandler
  <1>4. v.callback = [c \in {Root} \cup ToSet(Grown(t, s)) |-> Callback(t, s, h, c)]
    BY DEF AddRoute
  <1> HIDE DEF v
  <1>5. Walk(v, u) = n
    BY <1>1, <1>2, <1>3, SameWalk
  <1>6. PICK w : Trail(t, u, w) /\ n = w[Len(u)]
    BY <1>1, WalkIs
  <1>7. n \in {Root} \cup ToSet(t.nodes)
    <2>1. Len(u) \in 0..Len(u)
      OBVIOUS
    <2> QED
      BY <1>3, <1>6, <2>1 DEF Trail, Stops
  <1>8. n \in {Root} \cup ToSet(v.nodes)
    <2>1. v.nodes \in Seq(Seq(Segments)) /\ Len(t.nodes) <= Len(v.nodes)
          /\ \A j \in 1..Len(t.nodes) : v.nodes[j] = t.nodes[j]
      BY <1>2 DEF GrownFrom
    <2>2. \A j \in 1..Len(t.nodes) : j \in 1..Len(v.nodes)
      BY <1>1, <2>1
    <2> HIDE DEF n
    <2>3. CASE n = Root
      BY <2>3
    <2>4. CASE n \in ToSet(t.nodes)
      <3>1. PICK j \in 1..Len(t.nodes) : n = t.nodes[j]
        BY <1>1, <2>4, ElementsAre
      <3>2. n = v.nodes[j] /\ j \in 1..Len(v.nodes)
        BY <2>1, <2>2, <3>1
      <3>3. n \in ToSet(v.nodes)
        BY <2>1, <3>2, ElementsAre
      <3> QED
        BY <3>3
    <2> QED
      BY <1>7, <2>3, <2>4
  <1>9. n # s
    <2>1. IsPrefix(s, s)
      BY DEF IsPrefix
    <2> QED
      BY <2>1
  <1>10. DOMAIN t.callback = {Root} \cup ToSet(t.nodes)
    BY DEF TrieOf, CallbacksOf
  <1> HIDE DEF n
  <1>11. v.callback[n] = t.callback[n]
    BY <1>2, <1>4, <1>7, <1>8, <1>9, <1>10 DEF Callback
  <1> QED
    BY <1>3, <1>5, <1>11 DEF FindHandler, v

-----------------------------------------------------------------------------
(* The invariant of the table and of the responses.                        *)

(* The tries hold what the log says.                                       *)
TableInv ==
  /\ log \in Seq(Route)
  /\ DOMAIN tries = Methods /\ tries = [m \in Methods |-> tries[m]]
  /\ \A m \in Methods : TrieOf(tries[m], m, log)

(* Responses start once no route can be registered any more.               *)
StartedInv ==
  /\ running \in BOOLEAN
  /\ process = "walking" => ~running
  /\ ~running => started = <<>>
  /\ started \in Seq(public \cup {Index} \cup Callbacks)
  /\ OneResponse

(* Both.                                                                   *)
RouterInv == TableInv /\ StartedInv

(* No route is registered, and nothing is started.                         *)
LEMMA InitRouter == Init => RouterInv
  <1> SUFFICES ASSUME Init PROVE RouterInv
    OBVIOUS
  <1>1. /\ tries = [m \in Methods |-> Created] /\ started = <<>>
        /\ running = FALSE /\ log = <<>>
    BY DEF Init
  <1>2. TableInv
    BY <1>1, EmptyTrie DEF TableInv
  <1>3. started \in Seq(public \cup {Index} \cup Callbacks) /\ Len(started) <= 1
    BY <1>1
  <1>4. OneResponse
    BY <1>3 DEF OneResponse
  <1>5. StartedInv
    BY <1>1, <1>3, <1>4 DEF StartedInv
  <1> QED
    BY <1>2, <1>5 DEF RouterInv

(* A route is registered in the trie of its method only.                   *)
LEMMA TableStep ==
  ASSUME TableInv, NEW r \in Route, Register(r)
  PROVE  TableInv'
  <1>1. /\ tries' = [tries EXCEPT ![r.method] = AddRoute(@, r.segments, r.callback)]
        /\ log' = Append(log, r)
    BY DEF Register
  <1>2. r.method \in Methods
    BY RouteIs
  <1>3. log' \in Seq(Route)
    BY <1>1, LongerLog DEF Extends, TableInv
  <1>4. ASSUME NEW m \in Methods PROVE TrieOf(tries'[m], m, log')
    <2>1. TrieOf(tries[m], m, log) /\ log \in Seq(Route)
      BY DEF TableInv
    <2>2. CASE m = r.method
      <3>1. tries'[m] = AddRoute(tries[m], r.segments, r.callback)
        BY <1>1, <2>2 DEF TableInv
      <3> QED
        BY <1>1, <2>1, <2>2, <3>1, AddedTrie
    <2>3. CASE m # r.method
      <3>1. tries'[m] = tries[m]
        BY <1>1, <2>3 DEF TableInv
      <3> QED
        BY <1>1, <2>1, <2>3, <3>1, OtherTrie
    <2> QED
      BY <2>2, <2>3
  <1>5. DOMAIN tries' = Methods /\ tries' = [m \in Methods |-> tries'[m]]
    BY <1>1 DEF TableInv
  <1> QED
    BY <1>3, <1>4, <1>5 DEF TableInv

(* The walk of the public directory has not started any response.          *)
LEMMA StartedDuringWalk ==
  ASSUME StartedInv, List
  PROVE  StartedInv'
  <1>1. process = "walking" /\ started' = started /\ running' = running /\ log' = log
    BY DEF List, table, Dir!Walk, Dir!SkipHidden, Dir!AddFile, Dir!Enter, Dir!Leave,
           Dir!Publish, Dir!Reads, Dir!Returned
  <1>2. started = <<>> /\ ~running
    BY <1>1 DEF StartedInv
  <1> QED
    BY <1>1, <1>2 DEF StartedInv, OneResponse

(* A callback found is that of a route registered, which fits the URI.     *)
LEMMA FoundFits ==
  ASSUME log \in Seq(Route), NEW m, NEW t, TrieOf(t, m, log),
         NEW u \in Seq(Segments), FindHandler(t, u) # None
  PROVE  /\ FindHandler(t, u) \in Callbacks
         /\ \E i \in DOMAIN log : Match(log[i].segments, u)
  <1> DEFINE n == Walk(t, u)
  <1>1. n # None /\ FindHandler(t, u) = t.callback[n] /\ t.callback[n] # None
    BY DEF FindHandler
  <1>2. NodesOf(t.nodes, m, log) /\ CallbacksOf(t, m, log) /\ t.nodes \in Seq(Seq(Segments))
    BY DEF TrieOf, NodesOf
  <1>3. n \in {Root} \cup ToSet(t.nodes)
    BY <1>1, <1>2, WalkAgrees
  <1>4. Match(n, u)
    BY <1>1, <1>2, StopFits
  <1> HIDE DEF n
  <1>5. PICK i \in For(log, m) : log[i].segments = n /\ t.callback[n] = log[i].callback
    BY <1>1, <1>2, <1>3 DEF CallbacksOf, IsLast
  <1>6. log[i].callback \in Callbacks /\ i \in DOMAIN log
    <2>1. log[i].callback \in Callbacks
      BY <1>5, LoggedIs
    <2>2. i \in 1..Len(log) /\ DOMAIN log = 1..Len(log)
      BY DEF For
    <2> QED
      BY <2>1, <2>2
  <1> QED
    BY <1>1, <1>4, <1>5, <1>6

\* A sequence of at most one element.
LEMMA OneOrNone ==
  ASSUME NEW R, NEW s, s = <<>> \/ \E x \in R : s = <<x>>
  PROVE  s \in Seq(R) /\ Len(s) <= 1
  <1>1. CASE s = <<>>
    <2>1. <<>> \in Seq(R) /\ Len(<<>>) = 0
      OBVIOUS
    <2> QED
      BY <1>1, <2>1
  <1>2. ASSUME NEW x \in R, s = <<x>> PROVE s \in Seq(R) /\ Len(s) <= 1
    <2>1. <<x>> \in Seq(R) /\ Len(<<x>>) = 1
      OBVIOUS
    <2> QED
      BY <1>2, <2>1
  <1> QED
    BY <1>1, <1>2

(* A request that starts two responses has a route that fits.              *)
LEMMA RequestStep ==
  ASSUME RouterInv, NEW m \in Methods, NEW u \in URIs, Request(m, u)
  PROVE  StartedInv'
  <1>1. CASE Asks(m, u) /\ Dir!Divides
    <2>1. /\ process' = "division" /\ started' = started /\ running' = running
          /\ log' = log /\ public' = public
      BY <1>1 DEF Request
    <2>2. OneResponse'
      BY <2>1 DEF OneResponse, RouterInv, StartedInv
    <2> QED
      BY <2>1, <2>2 DEF RouterInv, StartedInv
  <1>2. CASE ~(Asks(m, u) /\ Dir!Divides)
    <2> DEFINE A == IF u = Slash THEN <<Index>> ELSE <<>>
               B == Static(m, u)  C == Found(m, u)  h == FindHandler(tries[m], u)
               R == public \cup {Index} \cup Callbacks
    <2>1. /\ started' = A \o B \o C /\ running' = TRUE /\ process' = "serving"
          /\ log' = log /\ public' = public
      BY <1>2 DEF Request
    <2>2. u \in Seq(Segments) /\ TrieOf(tries[m], m, log) /\ log \in Seq(Route)
      BY RouterAssumption DEF RouterInv, TableInv
    <2>3. A \in Seq(R) /\ Len(A) <= 1 /\ (u # Slash => Len(A) = 0)
      <3>1. Index \in R /\ (A = <<>> \/ A = <<Index>>) /\ (u # Slash => A = <<>>)
        OBVIOUS
      <3>2. A = <<>> => Len(A) = 0
        OBVIOUS
      <3> HIDE DEF A, R
      <3> QED
        BY <3>1, <3>2, OneOrNone
    <2>4. B \in Seq(R) /\ Len(B) <= 1
      <3>1. B = <<>> \/ (u \in R /\ B = <<u>>)
        BY DEF Static
      <3> HIDE DEF B, R
      <3> QED
        BY <3>1, OneOrNone
    <2>5. Len(B) # 0 => u \in public /\ u # Slash
      <3>1. Len(B) # 0 => Asks(m, u) /\ u \in public
        BY DEF Static
      <3>2. Asks(m, u) => u # Slash
        BY RouterAssumption DEF Asks
      <3> QED
        BY <3>1, <3>2
    <2>6. C = (IF h = None THEN <<>> ELSE <<h>>)
      BY DEF Found
    <2>7. h # None => h \in Callbacks /\ \E i \in DOMAIN log : Match(log[i].segments, u)
      BY <2>2, FoundFits
    <2> HIDE DEF h
    <2>8. C \in Seq(R) /\ Len(C) <= 1
      BY <2>6, <2>7
    <2>9. Len(C) # 0 => h # None
      BY <2>6
    <2> HIDE DEF A, B, C
    <2>10. A \o B \o C \in Seq(R) /\ Len(A \o B \o C) = Len(A) + Len(B) + Len(C)
      <3> HIDE DEF R
      <3> QED
        BY <2>3, <2>4, <2>8
    <2>11. OneResponse'
      <3> SUFFICES ASSUME \A i \in DOMAIN log : \A x \in public \cup {Slash} : ~Match(log[i].segments, x)
                   PROVE  Len(A \o B \o C) <= 1
        BY <2>1 DEF OneResponse
      <3>1. CASE u \in public \cup {Slash}
        <4>1. Len(C) = 0
          BY <2>7, <2>9, <3>1
        <4>2. Len(A) = 0 \/ Len(B) = 0
          BY <2>3, <2>5
        <4>3. Len(A) \in Nat /\ Len(B) \in Nat
          BY <2>3, <2>4
        <4> QED
          BY <2>3, <2>4, <2>10, <4>1, <4>2, <4>3
      <3>2. CASE u \notin public \cup {Slash}
        <4>1. Len(A) = 0 /\ Len(B) = 0
          BY <2>3, <2>5, <3>2
        <4>2. Len(C) \in Nat
          BY <2>8
        <4> QED
          BY <2>8, <2>10, <4>1, <4>2
      <3> QED
        BY <3>1, <3>2
    <2>12. started' \in Seq(public' \cup {Index} \cup Callbacks)
      BY <2>1, <2>10
    <2> HIDE DEF R
    <2> QED
      BY <2>1, <2>11, <2>12 DEF StartedInv
  <1> QED
    BY <1>1, <1>2

(* Registering a route starts nothing.                                     *)
LEMMA RegisterStep ==
  ASSUME StartedInv, NEW r \in Route, Register(r)
  PROVE  StartedInv'
  <1>1. ~running /\ process' = process /\ started' = started /\ running' = running
    BY DEF Register, start
  <1>2. started = <<>>
    BY <1>1 DEF StartedInv
  <1>3. started' \in Seq(public' \cup {Index} \cup Callbacks) /\ Len(started') <= 1
    BY <1>1, <1>2
  <1>4. OneResponse'
    BY <1>3 DEF OneResponse
  <1> QED
    BY <1>1, <1>2, <1>3, <1>4 DEF StartedInv

\* Nothing but the walk of the directory is changed.
LEMMA SameTable ==
  ASSUME TableInv, tries' = tries, log' = log
  PROVE  TableInv'
  BY DEF TableInv

(* Nor does a step that changes nothing.                                   *)
LEMMA SameRouter ==
  ASSUME StartedInv, UNCHANGED vars
  PROVE  StartedInv'
  <1>1. /\ started' = started /\ running' = running /\ log' = log
        /\ process' = process /\ public' = public
    BY DEF vars, table, start
  <1> QED
    BY <1>1 DEF StartedInv, OneResponse

(* Every step preserves the invariant.                                     *)
LEMMA RouterStep == RouterInv /\ [Next]_vars => RouterInv'
  <1> SUFFICES ASSUME RouterInv, [Next]_vars PROVE RouterInv'
    OBVIOUS
  <1>1. TableInv /\ StartedInv
    BY DEF RouterInv
  <1>2. CASE List
    <2>1. tries' = tries /\ log' = log
      BY <1>2 DEF List, table
    <2> QED
      BY <1>1, <1>2, <2>1, SameTable, StartedDuringWalk DEF RouterInv
  <1>3. ASSUME NEW r \in Route, Register(r) PROVE RouterInv'
    BY <1>1, <1>3, TableStep, RegisterStep DEF RouterInv
  <1>4. ASSUME NEW m \in Methods, NEW u \in URIs, Request(m, u) PROVE RouterInv'
    <2>1. tries' = tries /\ log' = log
      BY <1>4 DEF Request
    <2> QED
      BY <1>1, <1>4, <2>1, SameTable, RequestStep DEF RouterInv
  <1>5. CASE UNCHANGED vars
    <2>1. tries' = tries /\ log' = log
      BY <1>5 DEF vars, table
    <2> QED
      BY <1>1, <1>5, <2>1, SameTable, SameRouter DEF RouterInv
  <1> QED
    BY <1>2, <1>3, <1>4, <1>5 DEF Next, Gone

(* What is used of it.                                                     *)
LEMMA ParentIs ==
  ASSUME NEW l \in Seq(Route), NEW m, NEW ns, NodesOf(ns, m, l), NEW n \in ToSet(ns)
  PROVE  Front(n) \in {Root} \cup ToSet(ns)
  <1>1. ns \in Seq(Seq(Segments))
    BY DEF NodesOf
  <1>2. PICK a \in 1..Len(ns) : n = ns[a]
    BY <1>1, ElementsAre
  <1>3. n \in Seq(Segments) /\ Len(n) > 0
    BY <1>1, <1>2 DEF NodesOf
  <1>4. PICK i \in For(l, m) : Begins(n, l[i].segments)
    BY <1>2 DEF NodesOf
  <1> DEFINE s == l[i].segments  d == Len(n) - 1
  <1>5. s \in Seq(Segments)
    BY <1>4, LoggedIs
  <1>6. \A c \in 1..Len(s) : \E b \in 1..Len(ns) : ns[b] = SubSeq(s, 1, c)
    BY <1>4 DEF NodesOf
  <1> HIDE DEF s
  <1>7. Len(n) <= Len(s) /\ \A j \in 1..Len(n) : n[j] = s[j]
    BY <1>4 DEF Begins, s
  <1>8. d \in Nat /\ d <= Len(s) /\ \A j \in 1..d : j \in 1..Len(n)
    BY <1>3, <1>5, <1>7
  <1>9. /\ Front(n) \in Seq(Segments) /\ Len(Front(n)) = d
        /\ \A j \in 1..d : Front(n)[j] = n[j]
    <2>1. n \in Seq(Segments) /\ Len(n) \in Nat /\ d \in 0..Len(n)
      BY <1>3
    <2>2. Front(n) = SubSeq(n, 1, d)
      BY DEF Front
    <2> HIDE DEF d
    <2> QED
      BY <2>1, <2>2
  <1> HIDE DEF d
  <1>10. CASE d = 0
    <2>1. Front(n) = Root
      BY <1>9, <1>10, RootIs, SeqEqual
    <2> QED
      BY <2>1
  <1>11. CASE d # 0
    <2>1. d \in 1..Len(s) /\ d \in 0..Len(s)
      BY <1>5, <1>8, <1>11
    <2>2. SubSeq(s, 1, d) \in Seq(Segments) /\ Len(SubSeq(s, 1, d)) = d
          /\ \A j \in 1..d : SubSeq(s, 1, d)[j] = s[j]
      BY <1>5, <2>1
    <2>3. Front(n) = SubSeq(s, 1, d)
      BY <1>7, <1>8, <1>9, <2>2, SeqEqual
    <2>4. PICK b \in 1..Len(ns) : ns[b] = SubSeq(s, 1, d)
      BY <1>6, <2>1
    <2> QED
      BY <1>1, <2>3, <2>4, ElementsAre
  <1> QED
    BY <1>10, <1>11

(* Nodes are the beginnings of routes: with a node they have its parent.   *)
LEMMA TypesHold == RouterInv => TypeOK
  <1> SUFFICES ASSUME RouterInv PROVE TypeOK
    OBVIOUS
  <1>1. /\ log \in Seq(Route) /\ running \in BOOLEAN
        /\ started \in Seq(public \cup {Index} \cup Callbacks)
    BY DEF RouterInv, TableInv, StartedInv
  <1>2. ASSUME NEW m \in Methods
        PROVE  LET t == tries[m] IN
                 /\ IsInjective(t.nodes)
                 /\ \A n \in ToSet(t.nodes) : Front(n) \in {Root} \cup ToSet(t.nodes)
                 /\ t.callback \in [{Root} \cup ToSet(t.nodes) -> Callbacks \cup {None}]
    <2> DEFINE t == tries[m]
    <2>1. NodesOf(t.nodes, m, log) /\ CallbacksOf(t, m, log)
      BY DEF RouterInv, TableInv, TrieOf
    <2> HIDE DEF t
    <2>2. IsInjective(t.nodes)
      <3>1. \A a, b \in 1..Len(t.nodes) : t.nodes[a] = t.nodes[b] => a = b
        BY <2>1 DEF NodesOf
      <3>2. DOMAIN t.nodes = 1..Len(t.nodes)
        BY <2>1 DEF NodesOf
      <3> QED
        BY <3>1, <3>2 DEF IsInjective
    <2>3. \A n \in ToSet(t.nodes) : Front(n) \in {Root} \cup ToSet(t.nodes)
      BY <1>1, <2>1, ParentIs
    <2>4. t.callback \in [{Root} \cup ToSet(t.nodes) -> Callbacks \cup {None}]
      BY <2>1 DEF CallbacksOf
    <2> QED
      BY <2>2, <2>3, <2>4 DEF t
  <1> QED
    BY <1>1, <1>2 DEF TypeOK

(* Every trie is searched as the routes for its method say.                *)
LEMMA FindsHold == RouterInv => FindsFirst
  <1> SUFFICES ASSUME RouterInv, NEW m \in Methods, NEW u \in URIs
               PROVE  LET C == Chosen(m, u) IN
                 FindHandler(tries[m], u) =
                   IF C = {} THEN None ELSE log[CHOOSE i \in C : \A j \in C : j <= i].callback
    BY DEF FindsFirst
  <1>1. log \in Seq(Route) /\ TrieOf(tries[m], m, log) /\ u \in Seq(Segments)
    BY RouterAssumption DEF RouterInv, TableInv
  <1> QED
    BY <1>1, FindIs

\* What NeverStolen says of a step.
Stolen ==
  log' # log => \A m \in Methods, u \in URIs :
    LET h == FindHandler(tries[m], u) IN
      h # None /\ FindHandler(tries'[m], u) # h =>
        /\ m = Last(log').method
        /\ IsPrefix(Walk(tries[m], u), Last(log').segments)

(* Only Register changes the log, and KeptHandler says who loses a URI.    *)
LEMMA StolenStep == RouterInv /\ [Next]_vars => [Stolen]_vars
  <1> SUFFICES ASSUME RouterInv, [Next]_vars, log' # log, NEW m \in Methods, NEW u \in URIs,
                      FindHandler(tries[m], u) # None,
                      FindHandler(tries'[m], u) # FindHandler(tries[m], u)
               PROVE  /\ m = Last(log').method
                      /\ IsPrefix(Walk(tries[m], u), Last(log').segments)
    BY DEF Stolen
  <1>1. PICK r \in Route : Register(r)
    BY DEF Next, List, Request, Gone, vars, table
  <1>2. /\ tries' = [tries EXCEPT ![r.method] = AddRoute(@, r.segments, r.callback)]
        /\ log' = Append(log, r)
    BY <1>1 DEF Register
  <1>3. /\ log \in Seq(Route) /\ DOMAIN tries = Methods
        /\ TrieOf(tries[m], m, log) /\ u \in Seq(Segments) /\ r.segments \in Seq(Segments)
    BY RouterAssumption, RouteIs DEF RouterInv, TableInv
  <1>4. Last(log') = r
    BY <1>2, <1>3 DEF Last
  <1>5. m = r.method
    <2>1. CASE m # r.method
      BY <1>2, <1>3, <2>1
    <2> QED
      BY <2>1
  <1>6. tries'[m] = AddRoute(tries[m], r.segments, r.callback)
    BY <1>2, <1>3, <1>5
  <1>7. CASE ~IsPrefix(Walk(tries[m], u), r.segments)
    BY <1>3, <1>6, <1>7, KeptHandler
  <1> QED
    BY <1>4, <1>5, <1>7

(* Whatever routes are registered in whatever order, trie_add_route makes  *)
(* a tree whose nodes are distinct, and only nodes have callbacks.         *)
THEOREM RouterTypes == Spec => []TypeOK
  <1>1. Spec => []RouterInv
    BY InitRouter, RouterStep, PTL DEF Spec
  <1> QED
    BY <1>1, TypesHold, PTL

(* trie_find_handler finds, for every URI and after every sequence of      *)
(* trie_add_route calls, the callback registered last on the route that    *)
(* the first match at each segment leads to.                               *)
THEOREM FindsFirstMatch == Spec => []FindsFirst
  <1>1. Spec => []RouterInv
    BY InitRouter, RouterStep, PTL DEF Spec
  <1> QED
    BY <1>1, FindsHold, PTL

(* router_handle_request starts two responses for one request only if some *)
(* registered route fits a beginning of a public URI or of "/".            *)
THEOREM AnswersOnce == Spec => []OneResponse
  <1>1. Spec => []RouterInv
    BY InitRouter, RouterStep, PTL DEF Spec
  <1>2. RouterInv => OneResponse
    BY DEF RouterInv, StartedInv
  <1> QED
    BY <1>1, <1>2, PTL

(* trie_add_route takes a URI away from the callback it was found with     *)
(* only if it replaces this callback, or extends the leaf that the search  *)
(* stopped at.                                                             *)
THEOREM KeepsURIs == Spec => NeverStolen
  <1>1. Spec => []RouterInv
    BY InitRouter, RouterStep, PTL DEF Spec
  <1>2. Spec => [][Stolen]_vars
    BY <1>1, StolenStep, PTL DEF Spec
  <1> QED
    BY <1>2 DEF NeverStolen, Stolen

=============================================================================
