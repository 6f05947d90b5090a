---------------------------- MODULE ReceiveProofs ----------------------------
(***************************************************************************)
(* The string of a connection, for any limits that satisfy the assumption  *)
(* of Receive and whatever the client sends: it never outgrows its first   *)
(* allocation, every recv has room for a chunk, and the limit on the whole *)
(* request is never reached; and the verdict on the request is right.      *)
(***************************************************************************)
EXTENDS Receive, NaturalsInduction, WellFoundedInduction, SequenceTheorems, TLAPS

(* A set of places that is not empty has a first one.                      *)
LEMMA FirstPlace ==
  ASSUME NEW E, E \subseteq Nat, E # {}
  PROVE  \E i \in E : \A j \in E : i <= j
  <1> DEFINE R == OpToRel(<, Nat)
  <1>1. \E i \in E : \A j \in E : <<j, i>> \notin R
    <2>1. IsWellFoundedOn(R, Nat)
      BY NatLessThanWellFounded
    <2> HIDE DEF R
    <2> QED
      BY <2>1, WFMin
  <1>2. \A i, j \in E : <<j, i>> \notin R => i <= j
    BY DEF OpToRel
  <1> QED
    BY <1>1, <1>2

(* memmem returns no negative place.                                       *)
LEMMA HeadersEndType ==
  ASSUME NEW s \in Seq(Tokens)
  PROVE  HeadersEnd(s) \in Nat
  <1> DEFINE E == {i \in 1..Len(s) - 1 : s[i] = NL /\ s[i + 1] = NL}
  <1>1. E \subseteq Nat
    OBVIOUS
  <1>2. HeadersEnd(s) = IF E = {} THEN 0 ELSE CHOOSE i \in E : \A j \in E : i <= j
    BY DEF HeadersEnd
  <1> HIDE DEF E
  <1>3. E # {} => \E i \in E : \A j \in E : i <= j
    BY <1>1, FirstPlace
  <1>4. CASE E = {}
    BY <1>2, <1>4
  <1>5. CASE E # {}
    <2>1. (CHOOSE i \in E : \A j \in E : i <= j) \in E
      BY <1>3, <1>5
    <2> QED
      BY <1>1, <1>2, <1>5, <2>1
  <1> QED
    BY <1>4, <1>5

(* request_parse asks for more only below MAX_HEADER_BYTES.                *)
LEMMA MoreOnlyBelowLimit ==
  ASSUME NEW s \in Seq(Tokens), NEW len \in Nat, Parse(s, len) = 0
  PROVE  len < MaxHeader
  BY HeadersEndType, ReceiveAssumption DEF Parse

(* Between two recvs the string is shorter than MAX_HEADER_BYTES; that is  *)
(* why it is never enlarged again.                                         *)
RInv ==
  /\ TypeOK
  /\ alloc = 2 * Chunk
  /\ state = "receiving" /\ ~landed => length < MaxHeader

LEMMA InitRInv == Init => RInv
  <1> SUFFICES ASSUME Init PROVE RInv
    OBVIOUS
  <1>1. buffer \in Seq(Tokens)
    BY DEF Init
  <1>2. Grown(0, 0) = 2 * Chunk
    BY ReceiveAssumption DEF Grown
  <1>3. length \in 0..alloc /\ alloc = 2 * Chunk /\ length < MaxHeader
    BY <1>2, ReceiveAssumption DEF Init
  <1>4. landed \in BOOLEAN /\ state = "receiving"
    BY DEF Init
  <1> QED
    BY <1>1, <1>3, <1>4 DEF RInv, TypeOK

LEMMA NextRInv == RInv /\ [Next]_vars => RInv'
  <1> SUFFICES ASSUME RInv, [Next]_vars PROVE RInv'
    OBVIOUS
  <1> USE ReceiveAssumption
  <1>1. ASSUME NEW x \in Pieces, Arrive(x) PROVE RInv'
    <2>1. buffer' \in Seq(Tokens)
      BY <1>1 DEF Arrive, RInv, TypeOK
    <2>2. length' \in 0..alloc' /\ alloc' = 2 * Chunk
      BY <1>1 DEF Arrive, RInv, TypeOK
    <2> QED
      BY <1>1, <2>1, <2>2 DEF Arrive, RInv, TypeOK
  <1>2. CASE Completion
    <2>1. CASE Parse(buffer, length) = 0 /\ length <= MaxRequest
               /\ alloc' = Grown(alloc, length)
      <3>1. length < MaxHeader
        BY <2>1, MoreOnlyBelowLimit DEF RInv, TypeOK
      <3>2. alloc' = alloc
        BY <2>1, <3>1 DEF Grown, RInv, TypeOK
      <3> QED
        BY <1>2, <3>1, <3>2 DEF Completion, RInv, TypeOK
    <2>2. CASE state' \in {"rejected", "dispatched"} /\ UNCHANGED alloc
      BY <1>2, <2>2 DEF Completion, RInv, TypeOK
    <2> QED
      BY <1>2, <2>1, <2>2 DEF Completion
  <1>3. CASE EmptyCompletion
    BY <1>3 DEF EmptyCompletion, RInv, TypeOK
  <1>4. CASE UNCHANGED vars
    BY <1>4 DEF vars, RInv, TypeOK
  <1> QED
    BY <1>1, <1>2, <1>3, <1>4 DEF Next, Ended

(* No recv writes beyond the room made for it.                             *)
THEOREM TypeCorrect == Spec => []TypeOK
  <1>1. RInv => TypeOK
    BY DEF RInv
  <1> QED
    BY InitRInv, NextRInv, <1>1, PTL DEF Spec

(* Every recv is given room for RECV_CHUNK bytes, without enlarging the    *)
(* string of the first recv.                                               *)
THEOREM RoomAlways == Spec => []RoomToReceive
  <1>1. RInv => RoomToReceive
    BY ReceiveAssumption DEF RInv, TypeOK, RoomToReceive
  <1> QED
    BY InitRInv, NextRInv, <1>1, PTL DEF Spec

(* The string is never enlarged after the first recv.                      *)
THEOREM AllocatedOnce == Spec => [](alloc = 2 * Chunk)
  <1>1. RInv => alloc = 2 * Chunk
    BY DEF RInv
  <1> QED
    BY InitRInv, NextRInv, <1>1, PTL DEF Spec

(* The check against MAX_REQUEST never succeeds.                           *)
THEOREM LimitNeverReached == Spec => [](length <= MaxRequest)
  <1>1. RInv => length <= MaxRequest
    BY ReceiveAssumption DEF RInv, TypeOK
  <1> QED
    BY InitRInv, NextRInv, <1>1, PTL DEF Spec

-----------------------------------------------------------------------------
(* The verdict.  What the parser reads is compared with the reference      *)
(* piece by piece, from the searches it is built of to a whole request.    *)

(* Find: the first place.                                                  *)
LEMMA FindIs ==
  ASSUME NEW s \in Seq(Tokens), NEW x
  PROVE  \/ Find(x, s) = 0 /\ \A i \in 1..Len(s) : s[i] # x
         \/ /\ Find(x, s) \in 1..Len(s) /\ s[Find(x, s)] = x
            /\ \A j \in 1..Find(x, s) - 1 : s[j] # x
  <1> DEFINE E == {i \in 1..Len(s) : s[i] = x}
             First(i) == i \in 1..Len(s) /\ s[i] = x /\ \A j \in 1..i-1 : s[j] # x
  <1>1. CASE E = {}
    BY <1>1 DEF Find
  <1>2. CASE E # {}
    <2>1. PICK i \in E : \A j \in E : i <= j
      <3>1. E \subseteq Nat
        OBVIOUS
      <3> HIDE DEF E
      <3> QED
        BY <1>2, <3>1, FirstPlace
    <2>2. First(i)
      BY <2>1
    <2>3. Find(x, s) = CHOOSE k \in 1..Len(s) : s[k] = x /\ \A j \in 1..k-1 : s[j] # x
      BY <2>2 DEF Find
    <2>4. First(Find(x, s))
      BY <2>2, <2>3
    <2> QED
      BY <2>4
  <1> QED
    BY <1>1, <1>2

LEMMA FindAt ==
  ASSUME NEW s \in Seq(Tokens), NEW x, NEW k \in 1..Len(s),
         s[k] = x, \A j \in 1..k-1 : s[j] # x
  PROVE  Find(x, s) = k
  <1>1. Find(x, s) \in 1..Len(s) /\ s[Find(x, s)] = x /\ \A j \in 1..Find(x, s) - 1 : s[j] # x
    BY FindIs
  <1>2. ~(Find(x, s) < k) /\ ~(k < Find(x, s))
    BY <1>1
  <1> QED
    BY <1>1, <1>2

LEMMA BeforeIs ==
  ASSUME NEW s \in Seq(Tokens), NEW i \in 1..Len(s)
  PROVE  /\ Before(s, i) \in Seq(Tokens) /\ Len(Before(s, i)) = i - 1
         /\ \A k \in 1..i-1 : Before(s, i)[k] = s[k]
  BY SubSeqProperties DEF Before

LEMMA AfterIs ==
  ASSUME NEW s \in Seq(Tokens), NEW i \in 0..Len(s)
  PROVE  /\ After(s, i) \in Seq(Tokens) /\ Len(After(s, i)) = Len(s) - i
         /\ \A k \in 1..Len(s) - i : After(s, i)[k] = s[i + k]
  BY SubSeqProperties DEF After

(* Where hdr_end is: the first empty line.                                 *)
LEMMA HeadersEndIs ==
  ASSUME NEW s \in Seq(Tokens), HeadersEnd(s) # 0
  PROVE  /\ HeadersEnd(s) \in 1..Len(s) - 1
         /\ s[HeadersEnd(s)] = NL /\ s[HeadersEnd(s) + 1] = NL
         /\ \A i \in 1..HeadersEnd(s) - 1 : ~(s[i] = NL /\ s[i + 1] = NL)
  <1> DEFINE E == {i \in 1..Len(s) - 1 : s[i] = NL /\ s[i + 1] = NL}
             e == HeadersEnd(s)
  <1>1. E \subseteq Nat
    OBVIOUS
  <1>2. e = IF E = {} THEN 0 ELSE CHOOSE i \in E : \A j \in E : i <= j
    BY DEF HeadersEnd
  <1>3. e \in E /\ \A j \in E : e <= j
    <2> HIDE DEF E, e
    <2>1. E # {}
      BY <1>2 DEF e
    <2>2. \E i \in E : \A j \in E : i <= j
      BY <1>1, <2>1, FirstPlace
    <2> QED
      BY <1>2, <2>1, <2>2
  <1> HIDE DEF e
  <1>4. ASSUME NEW i \in 1..e-1 PROVE ~(s[i] = NL /\ s[i + 1] = NL)
    BY <1>3
  <1> QED
    BY <1>3, <1>4 DEF e

(* The three parts of a status line: the line s[1..i-1] is one word, a     *)
(* space, words, a space and the version.                                  *)
Line(s, i, u) ==
  /\ s[1] \in Methods /\ s[2] = SP /\ s[u + 3] = SP /\ s[u + 4] = Version
  /\ \A k \in 3..u+2 : s[k] # SP
  /\ i = u + 5

LEMMA TokensApart ==
  /\ NL \in Tokens /\ SP \in Tokens /\ Colon \in Tokens
  /\ Version \in Tokens /\ Version # NL /\ Version # SP /\ Version # Colon
  /\ \A m \in Methods : m \in Tokens /\ m # NL /\ m # SP /\ m # Colon
  BY TokensAssumption DEF Tokens

LEMMA StatusLineReads ==
  ASSUME NEW s \in Seq(Tokens), NEW i \in 1..Len(s), StatusLine(Before(s, i))
  PROVE  \E u \in 1..i-5 : Line(s, i, u)
  <1> DEFINE line == Before(s, i)
             a == Find(SP, line)
             rest == After(line, a)
             b == Find(SP, rest)
             tail == After(rest, b)
  <1>1. /\ a # 0 /\ b # 0
        /\ Before(line, a) # <<>> /\ Before(rest, b) # <<>>
        /\ \E m \in Methods : Before(line, a) = <<m>>
        /\ tail = <<Version>>
    BY DEF StatusLine
  <1>2. /\ line \in Seq(Tokens) /\ Len(line) = i - 1
        /\ \A k \in 1..i-1 : line[k] = s[k]
    BY BeforeIs
  <1> HIDE DEF line
  <1>3. a \in 1..i-1 /\ line[a] = SP /\ \A k \in 1..a-1 : line[k] # SP
    BY <1>1, <1>2, FindIs
  <1> HIDE DEF a
  <1>4. /\ rest \in Seq(Tokens) /\ Len(rest) = i - 1 - a
        /\ \A k \in 1..i-1-a : rest[k] = line[a + k]
    BY <1>2, <1>3, AfterIs, SMTT(30)
  <1>5. /\ Len(Before(line, a)) = a - 1
        /\ \A k \in 1..a-1 : Before(line, a)[k] = line[k]
    BY <1>2, <1>3, BeforeIs
  <1> HIDE DEF rest
  <1>6. b \in 1..i-1-a /\ rest[b] = SP /\ \A k \in 1..b-1 : rest[k] # SP
    BY <1>1, <1>4, FindIs
  <1> HIDE DEF b
  <1>7. /\ Len(tail) = i - 1 - a - b
        /\ \A k \in 1..i-1-a-b : tail[k] = rest[b + k]
    <2>1. b \in 0..Len(rest) /\ Len(rest) - b = i - 1 - a - b
      BY <1>3, <1>4, <1>6
    <2>2. /\ Len(tail) = Len(rest) - b
          /\ \A k \in 1..Len(rest) - b : tail[k] = rest[b + k]
      BY <2>1, <1>4, AfterIs
    <2> QED
      BY <2>1, <2>2
  <1>8. Len(Before(rest, b)) = b - 1 /\ Before(rest, b) \in Seq(Tokens)
    BY <1>4, <1>6, BeforeIs
  <1> HIDE DEF tail
  <1>9. a = 2 /\ s[1] \in Methods /\ s[2] = SP
    <2>1. PICK m \in Methods : Before(line, a) = <<m>>
      BY <1>1
    <2>2. a - 1 = 1
      BY <2>1, <1>5
    <2>3. Before(line, a)[1] = line[1]
      BY <2>2, <1>5, <1>3
    <2> QED
      BY <2>1, <2>2, <2>3, <1>2, <1>3
  <1>10. i - 1 - a - b = 1 /\ Version = rest[b + 1]
    BY <1>1, <1>7, <1>4, <1>6, <1>3
  <1>11. b # 1
    BY <1>1, <1>8, EmptySeq
  <1>12. \A k \in 1..i-3 : rest[k] = s[k + 2]
    BY <1>2, <1>4, <1>9
  <1>13. b - 1 \in 1..i-5 /\ i = (b - 1) + 5
    BY <1>3, <1>6, <1>9, <1>10, <1>11
  <1>14. s[(b - 1) + 3] = SP /\ s[(b - 1) + 4] = Version
    BY <1>6, <1>9, <1>10, <1>12, <1>13
  <1>15. \A k \in 3..(b - 1)+2 : s[k] # SP
    <2> SUFFICES ASSUME NEW k \in 3..(b - 1)+2 PROVE s[k] # SP
      OBVIOUS
    <2>1. k - 2 \in 1..b-1 /\ k - 2 \in 1..i-3
      BY <1>6, <1>13
    <2>2. rest[k - 2] = s[(k - 2) + 2]
      BY <2>1, <1>12
    <2> QED
      BY <2>1, <2>2, <1>6
  <1>16. Line(s, i, b - 1)
    BY <1>9, <1>13, <1>14, <1>15 DEF Line
  <1> QED
    BY <1>13, <1>16

LEMMA LineAccepted ==
  ASSUME NEW s \in Seq(Tokens), NEW i \in 1..Len(s), NEW u \in 1..i-5, Line(s, i, u)
  PROVE  StatusLine(Before(s, i))
  <1> DEFINE line == Before(s, i)
             rest == After(line, 2)
             tail == After(rest, u + 1)
             name == Before(line, 2)
             uri  == Before(rest, u + 1)
  <1>1. /\ u \in Nat /\ u >= 1 /\ i = u + 5
        /\ s[1] \in Methods /\ s[2] = SP /\ s[u + 3] = SP /\ s[u + 4] = Version
        /\ \A k \in 3..u+2 : s[k] # SP
    BY DEF Line
  <1>2. /\ line \in Seq(Tokens) /\ Len(line) = u + 4
        /\ \A k \in 1..u+4 : line[k] = s[k]
    BY <1>1, BeforeIs
  <1> HIDE DEF line
  <1>3. Find(SP, line) = 2
    <2>1. 2 \in 1..Len(line) /\ line[2] = SP /\ \A j \in 1..2-1 : line[j] # SP
      BY <1>1, <1>2, TokensApart
    <2> QED
      BY <1>2, <2>1, FindAt
  <1>4. /\ rest \in Seq(Tokens) /\ Len(rest) = u + 2
        /\ \A k \in 1..u+2 : rest[k] = s[2 + k]
    <2>1. 2 \in 0..Len(line) /\ Len(line) - 2 = u + 2
      BY <1>1, <1>2
    <2>2. /\ rest \in Seq(Tokens) /\ Len(rest) = Len(line) - 2
          /\ \A k \in 1..Len(line) - 2 : rest[k] = line[2 + k]
      BY <1>2, <2>1, AfterIs
    <2> QED
      BY <1>1, <1>2, <2>1, <2>2
  <1>5. name = <<s[1]>>
    <2>1. 2 \in 1..Len(line)
      BY <1>1, <1>2
    <2>2. name \in Seq(Tokens) /\ Len(name) = 2 - 1 /\ \A k \in 1..2-1 : name[k] = line[k]
      BY <1>2, <2>1, BeforeIs
    <2> HIDE DEF name
    <2>3. Len(name) = 1 /\ name[1] = s[1]
      BY <1>1, <1>2, <2>2
    <2> QED
      BY <2>2, <2>3
  <1> HIDE DEF rest
  <1>6. u + 1 \in 1..Len(rest) /\ u + 1 \in 0..Len(rest) /\ Len(rest) - (u + 1) = 1
    BY <1>1, <1>4
  <1>7. Find(SP, rest) = u + 1
    <2>1. rest[u + 1] = SP
      <3>1. rest[u + 1] = s[2 + (u + 1)] /\ 2 + (u + 1) = u + 3
        BY <1>1, <1>4, <1>6
      <3> QED
        BY <1>1, <3>1
    <2>2. ASSUME NEW j \in 1..(u + 1)-1 PROVE rest[j] # SP
      <3>1. j \in 1..u+2 /\ 2 + j \in 3..u+2
        BY <1>1
      <3> QED
        BY <1>1, <1>4, <3>1
    <2>3. \A k \in 1..Len(rest) :
            rest[k] = SP /\ (\A j \in 1..k-1 : rest[j] # SP) => Find(SP, rest) = k
      BY <1>4, FindAt
    <2> QED
      BY <1>6, <2>1, <2>2, <2>3, Zenon
  <1>8. tail = <<Version>>
    <2>1. /\ tail \in Seq(Tokens) /\ Len(tail) = Len(rest) - (u + 1)
          /\ \A k \in 1..Len(rest) - (u + 1) : tail[k] = rest[(u + 1) + k]
      <3>1. \A w \in 0..Len(rest) :
              /\ After(rest, w) \in Seq(Tokens) /\ Len(After(rest, w)) = Len(rest) - w
              /\ \A k \in 1..Len(rest) - w : After(rest, w)[k] = rest[w + k]
        BY <1>4, AfterIs
      <3> QED
        BY <3>1, <1>6, Zenon
    <2> HIDE DEF tail
    <2>2. Len(tail) = 1 /\ tail[1] = rest[(u + 1) + 1]
      BY <1>6, <2>1
    <2>3. (u + 1) + 1 = u + 2 /\ rest[u + 2] = s[2 + (u + 2)] /\ 2 + (u + 2) = u + 4
      BY <1>1, <1>4
    <2>4. tail[1] = Version
      BY <1>1, <2>2, <2>3
    <2> QED
      BY <2>1, <2>2, <2>4
  <1>9. uri # <<>>
    <2>1. Len(uri) = (u + 1) - 1
      BY <1>4, <1>6, BeforeIs
    <2> HIDE DEF uri
    <2> QED
      BY <1>1, <2>1
  <1> HIDE DEF tail, name, uri
  <1>10. Find(SP, tail) = 0
    <2>1. tail \in Seq(Tokens) /\ Len(tail) = 1 /\ tail[1] = Version
      BY <1>8, TokensApart
    <2> QED
      BY <2>1, FindIs, TokensApart
  <1>11. name # <<>> /\ \E m \in Methods : name = <<m>>
    BY <1>1, <1>5
  <1>12. u + 1 # 0
    BY <1>1
  <1> QED
    BY <1>3, <1>7, <1>8, <1>9, <1>10, <1>11, <1>12 DEF StatusLine, line, rest, tail, name, uri

(* What the reference asks of the header line that begins after place p of *)
(* a request whose last line ends at e.                                    *)
Named(s, p, e) ==
  /\ s[p + 1] # Colon
  /\ \E j \in p+2..e-1 : s[j] = Colon /\ \A k \in p+1..j : s[k] # NL

(* One turn of parse_headers accepts just those lines.                     *)
LEMMA HeaderReads ==
  ASSUME NEW s \in Seq(Tokens), NEW e \in 1..Len(s) - 1, s[e] = NL,
         NEW p \in 1..e-1
  PROVE  Header(Before(After(s, p), Find(NL, After(s, p)))) <=> Named(s, p, e)
  <1> DEFINE rest == After(s, p)
             f == Find(NL, rest)
             line == Before(rest, f)
             c == Find(Colon, line)
  <1>0. e \in Nat /\ p \in Nat /\ p >= 1 /\ p < e /\ e < Len(s) /\ Len(s) \in Nat
    OBVIOUS
  <1>1. /\ rest \in Seq(Tokens) /\ Len(rest) = Len(s) - p
        /\ \A k \in 1..Len(s) - p : rest[k] = s[p + k]
    <2>1. p \in 0..Len(s)
      BY <1>0
    <2> QED
      BY <2>1, AfterIs
  <1> HIDE DEF rest
  <1>2. rest[e - p] = NL /\ e - p \in 1..Len(rest)
    <2>1. e - p \in 1..Len(s) - p /\ p + (e - p) = e
      BY <1>0
    <2> QED
      BY <1>1, <2>1
  <1>3. f \in 1..Len(rest) /\ rest[f] = NL /\ \A k \in 1..f-1 : rest[k] # NL
    BY <1>1, <1>2, FindIs
  <1>4. f <= e - p
    BY <1>0, <1>2, <1>3
  <1> HIDE DEF f
  <1>5. /\ line \in Seq(Tokens) /\ Len(line) = f - 1
        /\ \A k \in 1..f-1 : line[k] = rest[k]
    BY <1>1, <1>3, BeforeIs
  <1> HIDE DEF line
  <1>6. \/ c = 0 /\ \A k \in 1..f-1 : line[k] # Colon
        \/ c \in 1..f-1 /\ line[c] = Colon /\ \A k \in 1..c-1 : line[k] # Colon
    BY <1>5, FindIs
  <1> HIDE DEF c
  <1>7. \A k \in 1..f-1 : line[k] = s[p + k]
    BY <1>0, <1>1, <1>3, <1>4, <1>5
  <1>8. \A k \in 1..f-1 : s[p + k] # NL
    BY <1>3, <1>5, <1>7
  <1>9. s[p + f] = NL
    BY <1>1, <1>3
  <1>10. ASSUME c > 1 PROVE Named(s, p, e)
    <2>1. c \in 2..f-1 /\ s[p + c] = Colon /\ s[p + 1] # Colon
      <3>1. c \in 2..f-1 /\ c \in 1..f-1 /\ 1 \in 1..f-1 /\ 1 \in 1..c-1
        BY <1>10, <1>3, <1>6
      <3> QED
        BY <1>6, <1>7, <3>1
    <2>2. p + c \in p+2..e-1
      BY <2>1, <1>0, <1>3, <1>4
    <2>3. \A k \in p+1..p+c : s[k] # NL
      <3> SUFFICES ASSUME NEW k \in p+1..p+c PROVE s[k] # NL
        OBVIOUS
      <3>1. k - p \in 1..f-1 /\ p + (k - p) = k
        BY <2>1, <1>0, <1>3
      <3> QED
        BY <3>1, <1>8
    <2> QED
      BY <2>1, <2>2, <2>3 DEF Named
  <1>11. ASSUME Named(s, p, e) PROVE c > 1
    <2>1. PICK j \in p+2..e-1 : s[j] = Colon /\ \A k \in p+1..j : s[k] # NL
      BY <1>11 DEF Named
    <2>2. ~(p + f <= j)
      BY <2>1, <1>0, <1>3, <1>9
    <2>3. j - p \in 2..f-1 /\ p + (j - p) = j
      BY <2>1, <2>2, <1>0, <1>3
    <2>4. line[j - p] = Colon
      BY <2>1, <2>3, <1>3, <1>7
    <2>5. line[1] # Colon
      BY <1>11, <2>3, <1>3, <1>7 DEF Named
    <2> QED
      BY <2>3, <2>4, <2>5, <1>3, <1>6, SMTT(30)
  <1> QED
    BY <1>10, <1>11 DEF Header, c, line, f, rest

(* The reference, read on the string the request is the beginning of.      *)
LEMMA RequestIs ==
  ASSUME NEW s \in Seq(Tokens), NEW e \in 1..Len(s) - 1,
         s[e] = NL, s[e + 1] = NL,
         \A i \in 1..e-1 : ~(s[i] = NL /\ s[i + 1] = NL)
  PROVE  Request(SubSeq(s, 1, e + 1)) <=>
         \E u \in 1..e-4 :
           /\ Line(s, u + 5, u)
           /\ \A k \in 3..u+2 : s[k] # NL
           /\ s[u + 5] = NL
           /\ \A p \in u+5..e-1 : s[p] = NL => Named(s, p, e)
  <1> DEFINE t == SubSeq(s, 1, e + 1)
  <1>1. /\ t \in Seq(Tokens) /\ Len(t) = e + 1
        /\ \A k \in 1..e+1 : t[k] = s[k]
    BY SubSeqProperties
  <1> HIDE DEF t
  <1>2. e \in Nat /\ e >= 1
    OBVIOUS
  <1>3. /\ Len(t) >= 2 /\ t[Len(t)] = NL /\ t[Len(t) - 1] = NL
        /\ \A i \in 1..Len(t)-2 : ~(t[i] = NL /\ t[i + 1] = NL)
    <2>1. Len(t) = e + 1 /\ Len(t) - 1 = e /\ Len(t) - 2 = e - 1
      BY <1>1, <1>2
    <2>2. \A i \in 1..e-1 : t[i] = s[i] /\ t[i + 1] = s[i + 1]
      BY <1>1, <1>2
    <2>3. t[e] = NL /\ t[e + 1] = NL
      BY <1>1, <1>2
    <2>4. \A i \in 1..e-1 : ~(t[i] = NL /\ t[i + 1] = NL)
      BY <2>2
    <2> QED
      BY <1>2, <2>1, <2>3, <2>4
  <1> DEFINE ColonAt(r, i, j) == r[j] = Colon /\ \A k \in i+1..j : r[k] # NL
  <1> DEFINE HeaderOf(r, i) ==
       /\ r[i + 1] # Colon
       /\ \E j \in i+2..e-1 : ColonAt(r, i, j)
  <1> DEFINE Of(r, u) ==
       /\ r[1] \in Methods /\ r[2] = SP /\ r[u + 3] = SP /\ r[u + 4] = Version
       /\ \A i \in 3..u+2 : r[i] \notin {SP, NL}
       /\ r[u + 5] = NL
       /\ \A i \in u+5..e-1 : r[i] = NL => HeaderOf(r, i)
  <1>4. Request(t) <=> \E u \in 1..e-4 : Of(t, u)
    <2>1. Len(t) - 2 = e - 1 /\ Len(t) - 5 = e - 4
      BY <1>1, <1>2
    <2> QED
      BY <1>3, <2>1, ZenonT(30) DEF Request
  <1>5. ASSUME NEW u \in 1..e-4 PROVE Of(t, u) <=> Of(s, u)
    <2>1. /\ t[1] = s[1] /\ t[2] = s[2] /\ t[u + 3] = s[u + 3]
          /\ t[u + 4] = s[u + 4] /\ t[u + 5] = s[u + 5]
      BY <1>1, <1>2
    <2>2. \A i \in 3..u+2 : t[i] = s[i]
      BY <1>1, <1>2
    <2>3. ASSUME NEW i \in u+5..e-1
          PROVE  /\ t[i] = s[i] /\ t[i + 1] = s[i + 1]
                 /\ \A j \in i+2..e-1 : t[j] = s[j] /\ \A k \in i+1..j : t[k] = s[k]
      BY <1>1, <1>2
    <2>4. ASSUME NEW i \in u+5..e-1
          PROVE  HeaderOf(t, i) <=> HeaderOf(s, i)
      <3>1. t[i + 1] = s[i + 1]
        BY <2>3
      <3>2. ASSUME NEW j \in i+2..e-1 PROVE ColonAt(t, i, j) <=> ColonAt(s, i, j)
        BY <2>3, SMTT(30)
      <3> HIDE DEF ColonAt
      <3> QED
        BY <3>1, <3>2
    <2> HIDE DEF HeaderOf
    <2> QED
      BY <2>1, <2>2, <2>3, <2>4
  <1>6. ASSUME NEW u \in 1..e-4
        PROVE  Of(s, u) <=> /\ Line(s, u + 5, u)
                            /\ \A k \in 3..u+2 : s[k] # NL
                            /\ s[u + 5] = NL
                            /\ \A p \in u+5..e-1 : s[p] = NL => Named(s, p, e)
    BY DEF Line, Named
  <1> HIDE DEF Of
  <1> QED
    BY <1>4, <1>5, <1>6 DEF t

(* request_parse accepts a string with an empty line if and only if it is  *)
(* a request up to there.                                                  *)
LEMMA ParserAgrees ==
  ASSUME NEW s \in Seq(Tokens), HeadersEnd(s) # 0
  PROVE  /\ StatusLine(Before(s, Find(NL, s)))
         /\ Headers(s, Find(NL, s), HeadersEnd(s))
         <=> Request(SubSeq(s, 1, HeadersEnd(s) + 1))
  <1> DEFINE e == HeadersEnd(s)
             i == Find(NL, s)
             Good(u) == /\ Line(s, u + 5, u)
                        /\ \A k \in 3..u+2 : s[k] # NL
                        /\ s[u + 5] = NL
                        /\ \A p \in u+5..e-1 : s[p] = NL => Named(s, p, e)
  <1>1. /\ e \in 1..Len(s) - 1 /\ s[e] = NL /\ s[e + 1] = NL
        /\ \A k \in 1..e-1 : ~(s[k] = NL /\ s[k + 1] = NL)
    BY HeadersEndIs
  <1> HIDE DEF e
  <1>2. Request(SubSeq(s, 1, e + 1)) <=> \E u \in 1..e-4 : Good(u)
    BY <1>1, RequestIs
  <1>3. /\ i \in 1..Len(s) /\ s[i] = NL
        /\ \A k \in 1..i-1 : s[k] # NL
    BY <1>1, FindIs
  <1>4. i <= e
    BY <1>1, <1>3
  <1>5. Headers(s, i, e) <=> \A p \in i..e-1 : s[p] = NL => Named(s, p, e)
    <2>1. \A p \in i..e-1 : Header(Before(After(s, p), Find(NL, After(s, p)))) <=> Named(s, p, e)
      <3>1. \A p \in i..e-1 : p \in 1..e-1
        BY <1>1, <1>3
      <3> QED
        BY <1>1, <3>1, HeaderReads
    <2> QED
      BY <2>1 DEF Headers
  <1> HIDE DEF i
  <1>6. ASSUME StatusLine(Before(s, i)), Headers(s, i, e)
        PROVE  \E u \in 1..e-4 : Good(u)
    <2>1. PICK u \in 1..i-5 : Line(s, i, u)
      BY <1>3, <1>6, StatusLineReads
    <2>2. i = u + 5 /\ u \in 1..e-4
      BY <2>1, <1>1, <1>3, <1>4 DEF Line
    <2>3. \A k \in 3..u+2 : s[k] # NL
      BY <1>3, <2>2
    <2>4. Good(u)
      BY <1>3, <1>5, <1>6, <2>1, <2>2, <2>3
    <2> QED
      BY <2>2, <2>4
  <1>7. ASSUME NEW u \in 1..e-4, Good(u)
        PROVE  StatusLine(Before(s, i)) /\ Headers(s, i, e)
    <2>1. u \in Nat /\ u >= 1 /\ u + 5 <= e + 1
      BY <1>1
    <2>2. /\ s[1] \in Methods /\ s[2] = SP /\ s[u + 3] = SP /\ s[u + 4] = Version
      BY <1>7 DEF Line
    <2>3. \A k \in 1..u+4 : s[k] # NL
      <3> SUFFICES ASSUME NEW k \in 1..u+4 PROVE s[k] # NL
        OBVIOUS
      <3>1. k = 1 \/ k = 2 \/ k \in 3..u+2 \/ k = u + 3 \/ k = u + 4
        BY <2>1
      <3> QED
        BY <1>7, <2>2, <3>1, TokensApart, TokensAssumption
    <2>4. i = u + 5
      <3>1. ~(i < u + 5)
        BY <1>3, <2>1, <2>3
      <3>2. ~(u + 5 < i)
        BY <1>3, <1>7, <2>1
      <3> QED
        BY <1>3, <2>1, <3>1, <3>2
    <2>5. StatusLine(Before(s, i))
      <3>1. u \in 1..i-5 /\ Line(s, i, u)
        BY <1>7, <2>1, <2>4
      <3> QED
        BY <1>3, <3>1, LineAccepted
    <2>6. Headers(s, i, e)
      BY <1>5, <1>7, <2>4
    <2> QED
      BY <2>5, <2>6
  <1> HIDE DEF Good
  <1> QED
    BY <1>2, <1>6, <1>7 DEF e, i

-----------------------------------------------------------------------------
LEMMA CompletionVerdict == RInv /\ Completion => Verdict'
  <1> SUFFICES ASSUME RInv, Completion PROVE Verdict'
    OBVIOUS
  <1> DEFINE e == HeadersEnd(buffer)
             parsed == /\ StatusLine(Before(buffer, Find(NL, buffer)))
                       /\ Headers(buffer, Find(NL, buffer), e)
             good == e # 0 /\ Request(SubSeq(buffer, 1, e + 1))
  <1>1. buffer \in Seq(Tokens) /\ length \in Nat /\ ~(length > MaxRequest)
    BY ReceiveAssumption DEF RInv, TypeOK
  <1>2. buffer' = buffer /\ length' = length
    BY DEF Completion
  <1>3. \/ state' = "rejected" /\ Parse(buffer, length) < 0
        \/ state' = state
        \/ state' = "dispatched" /\ Parse(buffer, length) > 0
    BY <1>1 DEF Completion
  <1>4. state = "receiving"
    BY DEF Completion
  <1>5. e \in Nat
    BY <1>1, HeadersEndType
  <1>6. Parse(buffer, length) = IF e = 0 THEN (IF length >= MaxHeader THEN -1 ELSE 0)
                                ELSE IF parsed THEN e + 1 ELSE -1
    BY DEF Parse
  <1>7. e # 0 => (parsed <=> Request(SubSeq(buffer, 1, e + 1)))
    BY <1>1, ParserAgrees
  <1> HIDE DEF e, parsed
  <1>8. Parse(buffer, length) > 0 => e # 0 /\ parsed
    BY <1>6
  <1>9. Parse(buffer, length) < 0 => ~(e # 0 /\ parsed) /\ (e = 0 => length >= MaxHeader)
    BY <1>5, <1>6
  <1>10. /\ Parse(buffer, length) > 0 => good
         /\ Parse(buffer, length) < 0 => ~good /\ (e = 0 => length >= MaxHeader)
    BY <1>7, <1>8, <1>9, Zenon
  <1> QED
    BY <1>2, <1>3, <1>4, <1>10 DEF Verdict, e

(* However the bytes are cut into recvs, a request is dispatched only if   *)
(* it is well formed up to its empty line and rejected only if it is not,  *)
(* or if MAX_HEADER_BYTES came without one (Verdict), for requests of any  *)
(* length and any words.                                                   *)
THEOREM VerdictRight == Spec => []Verdict
  <1>1. Init => Verdict
    BY DEF Init, Verdict
  <1>2. RInv /\ Verdict /\ [Next]_vars => Verdict'
    <2> SUFFICES ASSUME RInv, Verdict, [Next]_vars PROVE Verdict'
      OBVIOUS
    <2>1. ASSUME NEW x \in Pieces, Arrive(x) PROVE Verdict'
      BY <2>1 DEF Arrive, Verdict
    <2>2. CASE Completion
      BY <2>2, CompletionVerdict
    <2>3. CASE EmptyCompletion
      BY <2>3 DEF EmptyCompletion, Verdict
    <2>4. CASE UNCHANGED vars
      BY <2>4 DEF vars, Verdict
    <2> QED
      BY <2>1, <2>2, <2>3, <2>4 DEF Next, Ended
  <1> QED
    BY InitRInv, NextRInv, <1>1, <1>2, PTL DEF Spec

=============================================================================
