---------------------------- MODULE RequestParser ----------------------------
(***************************************************************************)
(* request_parse of webserver/src/network/http/request.c, on a sequence of *)
(* tokens: the line end, the space, the colon and words.                   *)
(*                                                                         *)
(* Names that begin with Bug are mistakes the neighbouring definition      *)
(* could hold, not the code.                                               *)
(***************************************************************************)
EXTENDS Integers, Sequences

CONSTANTS
  NL, SP, Colon,
  Words,          \* runs of other characters
  Methods,        \* the words parse_http_method knows
  Version,        \* the word "HTTP/1.1"
  MaxHeader       \* MAX_HEADER_BYTES

(* The tokens are told apart, and methods and the version are words.       *)
ASSUME TokensAssumption ==
  /\ NL # SP /\ NL # Colon /\ SP # Colon
  /\ {NL, SP, Colon} \cap Words = {}
  /\ Methods \subseteq Words /\ Version \in Words

Tokens == {NL, SP, Colon} \cup Words

\* memchr: the first place of x in s, 0 if there is none.
Find(x, s) ==
  IF \E i \in 1..Len(s) : s[i] = x
  THEN CHOOSE i \in 1..Len(s) : s[i] = x /\ \A j \in 1..i-1 : s[j] # x
  ELSE 0
Before(s, i) == SubSeq(s, 1, i - 1)
After(s, i) == SubSeq(s, i + 1, Len(s))

BugStatusLine(line) ==
  LET i == Find(SP, line)
      rest == After(line, i)
      j == Find(SP, rest)
  IN /\ i # 0 /\ j # 0
     /\ \E m \in Methods : Before(line, i) = <<m>>
     /\ After(rest, j) # <<>> /\ After(rest, j)[1] = Version
(* parse_status_line *)
StatusLine(line) ==
  LET i == Find(SP, line)
      rest == After(line, i)
      j == Find(SP, rest)
  IN /\ i # 0 /\ j # 0
     /\ Before(line, i) # <<>> /\ Before(rest, j) # <<>>
     /\ Find(SP, After(rest, j)) = 0
     /\ \E m \in Methods : Before(line, i) = <<m>>
     /\ After(rest, j) = <<Version>>

(* One turn of the loop of parse_headers: the name is not empty.           *)
Header(line) == Find(Colon, line) > 1

\* The place of the first empty line's end, 0 if there is none: hdr_end.
HeadersEnd(s) ==
  LET E == {i \in 1..Len(s) - 1 : s[i] = NL /\ s[i + 1] = NL}
  IN IF E = {} THEN 0 ELSE CHOOSE i \in E : \A j \in E : i <= j

(* parse_headers on the lines that begin after place i and end by place e. *)
Headers(s, i, e) ==
  \A p \in i..e-1 : s[p] = NL =>
    LET rest == After(s, p) IN Header(Before(rest, Find(NL, rest)))

BugParse(s, len) ==
  LET e == HeadersEnd(s)
      i == Find(NL, s)
  IN IF e = 0 THEN (IF len >= MaxHeader THEN -1 ELSE 0)
     ELSE IF StatusLine(Before(s, i)) /\ Headers(s, i, e) THEN e + 1
     ELSE 0
(* request_parse of the tokens s, which are len bytes: -1, 0, or where the *)
(* body begins.                                                            *)
Parse(s, len) ==
  LET e == HeadersEnd(s)
      i == Find(NL, s)
  IN IF e = 0 THEN (IF len >= MaxHeader THEN -1 ELSE 0)
     ELSE IF StatusLine(Before(s, i)) /\ Headers(s, i, e) THEN e + 1
     ELSE -1

-----------------------------------------------------------------------------
(* The reference: a request line and header lines, each with its line end, *)
(* and an empty line.                                                      *)
Request(s) ==
  LET n == Len(s) IN
  /\ n >= 2 /\ s[n] = NL /\ s[n - 1] = NL
  /\ \A i \in 1..n-2 : ~(s[i] = NL /\ s[i + 1] = NL)
  /\ \E u \in 1..n-5 :       \* the tokens of the URI
       /\ s[1] \in Methods /\ s[2] = SP /\ s[u + 3] = SP /\ s[u + 4] = Version
       /\ \A i \in 3..u+2 : s[i] \notin {SP, NL}
       /\ s[u + 5] = NL
       /\ \A i \in u+5..n-2 : s[i] = NL =>
            /\ s[i + 1] # Colon
            /\ \E j \in i+2..n-2 : s[j] = Colon /\ \A k \in i+1..j : s[k] # NL

=============================================================================
