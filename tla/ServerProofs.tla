---------------------------- MODULE ServerProofs -----------------------------
(***************************************************************************)
(* The event loop, for any number of connections, files, descriptors,      *)
(* cache entries and accept slots, and whatever operations fail.           *)
(*                                                                         *)
(* First: its variables keep their types, and a suspended protothread      *)
(* always has exactly one operation in flight to resume it.                *)
(*                                                                         *)
(* Then descriptors and the file cache.  A descriptor has one owner at a   *)
(* time: the connection accepted on it, the openat that returned it, the   *)
(* node of the cache it is stored in, or the close of an evicted file.     *)
(* While that is so no close hits a descriptor of somebody else, the cache *)
(* finds open files, and responses read their own file.  It is so as long  *)
(* as nothing has been evicted, or every openat and statx of a cached file *)
(* has succeeded; the eviction of one that failed closes a descriptor the  *)
(* cache never owned.                                                      *)
(*                                                                         *)
(* Last: the operations in flight are counted, and what clients receive    *)
(* follows.                                                                *)
(***************************************************************************)
EXTENDS Server, SequenceTheorems, FiniteSetTheorems, TLAPS

Completion == [kind : OpKinds \cup {"accept"}, id : Conns \cup {None}, res : Int]

\* What a completion carries: the connection it belongs to, a descriptor.
WellFormed(e) ==
  /\ e.kind # "accept" => e.id \in Conns
  /\ e.kind = "accept" /\ e.res >= 0 => e.id \in Conns /\ e.res \in Fd
  /\ e.kind = "openat" /\ e.res >= 0 => e.res \in Fd

QueueOK == \A i \in 1..Len(cq) : WellFormed(cq[i])

\* A connection whose accept is completed but not handled is pending.
PendingOK ==
  /\ \A i \in 1..Len(cq) : cq[i].kind = "accept" /\ cq[i].res >= 0 =>
       pt[cq[i].id].phase = "pending"
  /\ \A i, j \in 1..Len(cq) :
       /\ cq[i].kind = "accept" /\ cq[i].res >= 0
       /\ cq[j].kind = "accept" /\ cq[j].res >= 0
       /\ cq[i].id = cq[j].id
       => i = j

\* A response has a file to serve.
PathOK == \A c \in Conns : pt[c].phase \in Serving => pt[c].path \in Paths

\* The types of the variables PathOK and OneOp speak of, and of the others.
OpsType ==
  /\ ring \subseteq [kind : OpKinds, id : Conns, fd : Fd]
  /\ cq \in Seq(Completion)
  /\ pt \in [Conns -> Task]
OthersType ==
  /\ fds \in [Fd -> Desc]
  /\ armed \in Nat
  /\ buf \in [Conns -> Received]
  /\ pipe \in [Conns -> Seq(Paths \X Nat)]
  /\ out \in [Conns -> [hdr : Nat, len : Int, body : Seq(Paths \X Nat)]]
  /\ node \in [Conns -> File]
  /\ FC!TypeOK

\* What holds of operations and completions.
OpsInv == QueueOK /\ PendingOK /\ OneOp

\* The inductive invariant.
Tasks == OpsType /\ OpsInv /\ PathOK
IInv == Tasks /\ OthersType

-----------------------------------------------------------------------------
(* The queue of completions.                                               *)

(* io_uring posts a completion behind those not yet seen.                  *)
LEMMA QueueAppend ==
  ASSUME NEW q \in Seq(Completion), NEW e \in Completion
  PROVE  /\ Append(q, e) \in Seq(Completion)
         /\ Len(Append(q, e)) = Len(q) + 1
         /\ Append(q, e)[Len(q) + 1] = e
         /\ \A i \in 1..Len(q) : Append(q, e)[i] = q[i]
  BY AppendProperties

(* io_uring_cqe_seen drops the completion just handled.                    *)
LEMMA QueueTail ==
  ASSUME NEW q \in Seq(Completion), q # <<>>
  PROVE  /\ Tail(q) \in Seq(Completion)
         /\ Len(q) \in Nat /\ Len(q) > 0
         /\ Len(Tail(q)) = Len(q) - 1
         /\ Head(q) = q[1] /\ Head(q) \in Completion
         /\ \A i \in 1..Len(Tail(q)) : Tail(q)[i] = q[i + 1]
  BY HeadTailProperties, LenProperties

-----------------------------------------------------------------------------
(* How each kind of step keeps one operation per waiting protothread.      *)

(* The kernel completes an operation: it moves from the ring to the queue. *)
LEMMA CompleteOps ==
  ASSUME OpsType, OpsInv, NEW o \in ring, NEW r \in Int, Complete(o, r),
         pt' = pt, ~aborted,
         o.kind = "openat" /\ r >= 0 => r \in Fd
  PROVE  OpsInv' /\ cq' \in Seq(Completion)
  <1> DEFINE e == [kind |-> o.kind, id |-> o.id, res |-> r]
             n == Len(cq) + 1
  <1>1. /\ o.kind \in OpKinds /\ o.id \in Conns
        /\ e \in Completion /\ e.kind = o.kind /\ e.id = o.id /\ e.res = r
        /\ o.kind # "accept"
    BY DEF OpsType, Completion, OpKinds, Waiting
  <1>2. cq' = Append(cq, e) /\ ring' = ring \ {o}
    BY DEF Complete, Post
  <1>3. /\ cq' \in Seq(Completion) /\ cq \in Seq(Completion)
        /\ Len(cq) \in Nat /\ Len(cq') = n
        /\ DOMAIN cq = 1..Len(cq) /\ DOMAIN cq' = 1..n
        /\ cq'[n] = e
        /\ \A i \in 1..Len(cq) : cq'[i] = cq[i]
    BY <1>1, <1>2, QueueAppend, LenProperties DEF OpsType
  <1>4. \A i \in 1..n : i = n \/ i \in 1..Len(cq)
    BY <1>3
  <1> HIDE DEF e, n
  <1>5. QueueOK'
    BY <1>1, <1>3, <1>4 DEF QueueOK, WellFormed, OpsInv
  <1>6. PendingOK'
    BY <1>1, <1>3, <1>4 DEF PendingOK, OpsInv
  <1>7. OneOp'
    BY <1>1, <1>2, <1>3, <1>4 DEF OneOp, OpsInv, Awaited
  <1> QED
    BY <1>3, <1>5, <1>6, <1>7 DEF OpsInv

(* A completion is handled: the rest of the queue moves up.                *)
LEMMA HandleQueue ==
  ASSUME OpsType, QueueOK, cq # <<>>, cq' = Tail(cq)
  PROVE  /\ cq' \in Seq(Completion)
         /\ Len(cq) \in Nat /\ Len(cq') \in Nat /\ Len(cq) = Len(cq') + 1
         /\ DOMAIN cq = 1..Len(cq) /\ DOMAIN cq' = 1..Len(cq')
         /\ Head(cq) = cq[1] /\ Head(cq) \in Completion /\ WellFormed(Head(cq))
         /\ 1 \in 1..Len(cq)
         /\ \A i \in 1..Len(cq') : /\ cq'[i] = cq[i + 1]
                                   /\ i + 1 \in 1..Len(cq) /\ i + 1 # 1
         /\ \A i \in 1..Len(cq) : i = 1 \/ (i - 1 \in 1..Len(cq') /\ cq'[i - 1] = cq[i])
         /\ QueueOK'
  <1>1. /\ cq' \in Seq(Completion)
        /\ Len(cq) \in Nat /\ Len(cq) > 0 /\ Len(cq') = Len(cq) - 1
        /\ Head(cq) = cq[1] /\ Head(cq) \in Completion
        /\ \A i \in 1..Len(cq') : cq'[i] = cq[i + 1]
    BY QueueTail DEF OpsType
  <1>2. DOMAIN cq = 1..Len(cq) /\ DOMAIN cq' = 1..Len(cq')
    BY <1>1, LenProperties DEF OpsType
  <1>3. /\ 1 \in 1..Len(cq)
        /\ \A i \in 1..Len(cq') : i + 1 \in 1..Len(cq) /\ i + 1 # 1
        /\ \A i \in 1..Len(cq) : i = 1 \/ (i - 1 \in 1..Len(cq') /\ (i - 1) + 1 = i)
    <2> DEFINE m == Len(cq)
               n == Len(cq')
    <2>1. m \in Nat /\ m > 0 /\ n = m - 1
      BY <1>1
    <2> HIDE DEF m, n
    <2>2. /\ 1 \in 1..m
          /\ \A i \in 1..n : i + 1 \in 1..m /\ i + 1 # 1
          /\ \A i \in 1..m : i = 1 \/ (i - 1 \in 1..n /\ (i - 1) + 1 = i)
      BY <2>1
    <2> QED
      BY <2>2 DEF m, n
  <1>4. \A i \in 1..Len(cq) : i = 1 \/ (i - 1 \in 1..Len(cq') /\ cq'[i - 1] = cq[i])
    BY <1>1, <1>3
  <1>5. WellFormed(Head(cq)) /\ QueueOK'
    BY <1>1, <1>3 DEF QueueOK, WellFormed
  <1> QED
    BY <1>1, <1>2, <1>3, <1>4, <1>5

(* What is left of the queue still holds one completion per connection.    *)
LEMMA QueueShift ==
  ASSUME OpsType, OpsInv, cq # <<>>, cq' = Tail(cq),
         NEW i \in DOMAIN cq', NEW j \in DOMAIN cq',
         Awaited(cq'[i]), Awaited(cq'[j]), cq'[i].id = cq'[j].id
  PROVE  i = j
  <1>1. QueueOK
    BY DEF OpsInv
  <1>2. /\ i + 1 \in DOMAIN cq /\ cq'[i] = cq[i + 1]
        /\ j + 1 \in DOMAIN cq /\ cq'[j] = cq[j + 1]
        /\ i \in Int /\ j \in Int
    BY <1>1, HandleQueue
  <1>3. Awaited(cq[i + 1]) /\ Awaited(cq[j + 1]) /\ cq[i + 1].id = cq[j + 1].id
    BY <1>2
  <1>4. i + 1 = j + 1
    BY <1>2, <1>3 DEF OpsInv, OneOp
  <1> QED
    BY <1>2, <1>4

\* The completion e is the one connection c waits for, or its accept.
Owns(c, e) == e.id = c /\ (Awaited(e) \/ (e.kind = "accept" /\ e.res >= 0))

(* The completion c waits for is handled, and c has no other.              *)
LEMMA OwnerIsFree ==
  ASSUME OpsType, OpsInv, cq # <<>>, cq' = Tail(cq),
         NEW c \in Conns, Owns(c, Head(cq))
  PROVE  /\ \A o \in ring : Awaited(o) => o.id # c
         /\ \A i \in 1..Len(cq') : Awaited(cq'[i]) => cq'[i].id # c
         /\ \A i \in 1..Len(cq') :
              cq'[i].kind = "accept" /\ cq'[i].res >= 0 => cq'[i].id # c
  <1> DEFINE e == Head(cq)
  <1>1. QueueOK
    BY DEF OpsInv
  <1>2. /\ e = cq[1] /\ 1 \in 1..Len(cq) /\ DOMAIN cq = 1..Len(cq)
        /\ \A i \in 1..Len(cq') : cq'[i] = cq[i + 1] /\ i + 1 \in 1..Len(cq) /\ i + 1 # 1
    BY <1>1, HandleQueue
  <1>3. \A k : k = "pending" => k \notin Waiting
    BY DEF Waiting
  <1>4. \A o \in ring : Awaited(o) => pt[o.id].phase = o.kind /\ o.kind \in Waiting
    BY DEF OpsInv, OneOp, OpsType, OpKinds, Awaited
  <1>5. \A i \in 1..Len(cq) : Awaited(cq[i]) =>
          pt[cq[i].id].phase = cq[i].kind /\ cq[i].kind \in Waiting
    <2>1. \A i \in 1..Len(cq) : cq[i] \in Completion
      BY ElementOfSeq DEF OpsType
    <2> QED
      BY <1>2, <2>1 DEF OpsInv, OneOp, Completion, OpKinds, Awaited
  <1> HIDE DEF e
  <1>6. CASE Awaited(e)
    BY <1>2, <1>3, <1>4, <1>5, <1>6 DEF OpsInv, OneOp, PendingOK, Owns, e
  <1>7. CASE e.kind = "accept" /\ e.res >= 0
    BY <1>2, <1>3, <1>4, <1>5, <1>7 DEF OpsInv, PendingOK, Owns, e
  <1> QED
    BY <1>6, <1>7 DEF Owns, e

(* The handler of c's completion submits an operation and suspends c on it,*)
(* closing the descriptors of evicted files on the way.                    *)
LEMMA HandledAwait ==
  ASSUME OpsType, OpsInv, ~aborted, cq # <<>>, cq' = Tail(cq),
         NEW c \in Conns, Owns(c, Head(cq)),
         NEW k \in Waiting, NEW f, NEW E,
         \A x \in E : x.kind = "evict",
         ring' = ring \cup {Op(k, c, f)} \cup E,
         pt'[c].phase = k,
         \A d \in Conns \ {c} : pt'[d] = pt[d]
  PROVE  OpsInv'
  <1> DEFINE q == Op(k, c, f)
  <1>1. q.kind = k /\ q.id = c /\ Awaited(q)
    BY DEF Op, Awaited, Waiting
  <1>2. \A x \in E : ~Awaited(x)
    BY DEF Awaited
  <1>3. QueueOK /\ QueueOK'
    BY HandleQueue DEF OpsInv
  <1>4. \A i \in 1..Len(cq') : Awaited(cq'[i]) => cq'[i].id \in Conns
    BY <1>3 DEF QueueOK, WellFormed, Awaited
  <1>5. \A i \in 1..Len(cq') : cq'[i].kind = "accept" /\ cq'[i].res >= 0 => cq'[i].id \in Conns
    BY <1>3 DEF QueueOK, WellFormed
  <1>6. \A o \in ring : o.id \in Conns
    BY DEF OpsType
  <1> HIDE DEF q
  <1>7. PendingOK'
    BY <1>3, <1>5, HandleQueue, OwnerIsFree DEF OpsInv, PendingOK
  <1>8. \A o \in ring' : Awaited(o) => o = q \/ (o \in ring /\ o.id # c)
    BY <1>2, OwnerIsFree DEF q
  <1>9. q \in ring'
    BY DEF q
  <1>10. OneOp'
    <2>1. \A o \in ring' : Awaited(o) => pt'[o.id].phase = o.kind
      BY <1>1, <1>6, <1>8 DEF OpsInv, OneOp
    <2>2. \A i \in 1..Len(cq') : Awaited(cq'[i]) => pt'[cq'[i].id].phase = cq'[i].kind
      BY <1>3, <1>4, HandleQueue, OwnerIsFree DEF OpsInv, OneOp
    <2>3. \A o, p \in ring' : Awaited(o) /\ Awaited(p) /\ o.id = p.id => o = p
      BY <1>1, <1>8 DEF OpsInv, OneOp
    <2>4. \A i, j \in 1..Len(cq') :
            Awaited(cq'[i]) /\ Awaited(cq'[j]) /\ cq'[i].id = cq'[j].id => i = j
      BY <1>3, HandleQueue, QueueShift
    <2>5. \A o \in ring' : \A i \in 1..Len(cq') :
            Awaited(o) /\ Awaited(cq'[i]) => o.id # cq'[i].id
      <3>1. ASSUME NEW o \in ring', NEW i \in 1..Len(cq'), Awaited(o), Awaited(cq'[i])
            PROVE  o.id # cq'[i].id
        <4>1. i + 1 \in DOMAIN cq /\ cq'[i] = cq[i + 1]
          BY <1>3, HandleQueue
        <4>2. CASE o = q
          BY <1>1, <3>1, <4>2, OwnerIsFree
        <4>3. CASE o \in ring
          BY <3>1, <4>1, <4>3 DEF OpsInv, OneOp
        <4> QED
          BY <1>8, <3>1, <4>2, <4>3
      <3> QED
        BY <3>1
    <2>6. ASSUME NEW d \in Conns, pt'[d].phase \in Waiting
          PROVE  \/ \E o \in ring' : Awaited(o) /\ o.id = d
                 \/ \E i \in 1..Len(cq') : Awaited(cq'[i]) /\ cq'[i].id = d
      <3>1. CASE d = c
        BY <3>1, <1>1, <1>9
      <3>2. CASE d # c
        <4>1. \/ \E o \in ring : Awaited(o) /\ o.id = d
              \/ \E i \in 1..Len(cq) : Awaited(cq[i]) /\ cq[i].id = d
          BY <3>2, <2>6, <1>3, HandleQueue DEF OpsInv, OneOp
        <4>2. cq[1].id = c
          BY <1>3, HandleQueue DEF Owns
        <4> QED
          BY <3>2, <4>1, <4>2, <1>3, HandleQueue, ZenonT(30)
      <3> QED
        BY <3>1, <3>2
    <2>7. DOMAIN cq' = 1..Len(cq')
      BY <1>3, HandleQueue
    <2>8. \A i \in DOMAIN cq' : Awaited(cq'[i]) => pt'[cq'[i].id].phase = cq'[i].kind
      BY <2>2, <2>7
    <2>9. \A i, j \in DOMAIN cq' :
            Awaited(cq'[i]) /\ Awaited(cq'[j]) /\ cq'[i].id = cq'[j].id => i = j
      BY <2>4, <2>7
    <2>10. \A o \in ring' : \A i \in DOMAIN cq' :
             Awaited(o) /\ Awaited(cq'[i]) => o.id # cq'[i].id
      BY <2>5, <2>7
    <2>11. \A d \in Conns : pt'[d].phase \in Waiting /\ ~aborted' =>
             \/ \E o \in ring' : Awaited(o) /\ o.id = d
             \/ \E i \in DOMAIN cq' : Awaited(cq'[i]) /\ cq'[i].id = d
      BY <2>6, <2>7
    <2> QED
      BY <2>1, <2>3, <2>8, <2>9, <2>10, <2>11, Zenon DEF OneOp
  <1> QED
    BY <1>3, <1>7, <1>10 DEF OpsInv

(* The handler of c's completion ends the protothread of c.                *)
LEMMA HandledEnd ==
  ASSUME OpsType, OpsInv, ~aborted, cq # <<>>, cq' = Tail(cq),
         NEW c \in Conns, Owns(c, Head(cq)),
         ring' = ring,
         pt'[c].phase \notin Waiting,
         \A d \in Conns \ {c} : pt'[d] = pt[d]
  PROVE  OpsInv'
  <1>1. QueueOK /\ QueueOK'
    BY HandleQueue DEF OpsInv
  <1>2. \A i \in 1..Len(cq') : Awaited(cq'[i]) => cq'[i].id \in Conns \ {c}
    BY <1>1, OwnerIsFree DEF QueueOK, WellFormed, Awaited
  <1>3. \A i \in 1..Len(cq') :
          cq'[i].kind = "accept" /\ cq'[i].res >= 0 => cq'[i].id \in Conns \ {c}
    BY <1>1, OwnerIsFree DEF QueueOK, WellFormed
  <1>4. \A o \in ring : Awaited(o) => o.id \in Conns \ {c}
    BY OwnerIsFree DEF OpsType
  <1>5. PendingOK'
    BY <1>1, <1>3, HandleQueue DEF OpsInv, PendingOK
  <1>6. OneOp'
    <2>1. \A o \in ring' : Awaited(o) => pt'[o.id].phase = o.kind
      BY <1>4 DEF OpsInv, OneOp
    <2>2. \A i \in DOMAIN cq' : Awaited(cq'[i]) => pt'[cq'[i].id].phase = cq'[i].kind
      BY <1>1, <1>2, HandleQueue DEF OpsInv, OneOp
    <2>3. \A o, p \in ring' : Awaited(o) /\ Awaited(p) /\ o.id = p.id => o = p
      BY DEF OpsInv, OneOp
    <2>4. ASSUME NEW i \in DOMAIN cq', NEW j \in DOMAIN cq',
                 Awaited(cq'[i]), Awaited(cq'[j]), cq'[i].id = cq'[j].id
          PROVE  i = j
      BY <1>1, <2>4, QueueShift DEF OpsInv
    <2>5. \A o \in ring' : \A i \in DOMAIN cq' :
            Awaited(o) /\ Awaited(cq'[i]) => o.id # cq'[i].id
      BY <1>1, HandleQueue DEF OpsInv, OneOp
    <2>6. ASSUME NEW d \in Conns, pt'[d].phase \in Waiting
          PROVE  \/ \E o \in ring' : Awaited(o) /\ o.id = d
                 \/ \E i \in 1..Len(cq') : Awaited(cq'[i]) /\ cq'[i].id = d
      <3>1. d # c /\ pt[d].phase \in Waiting
        BY <2>6
      <3>2. \/ \E o \in ring : Awaited(o) /\ o.id = d
            \/ \E i \in 1..Len(cq) : Awaited(cq[i]) /\ cq[i].id = d
        BY <3>1, <1>1, HandleQueue DEF OpsInv, OneOp
      <3>3. cq[1].id = c
        BY <1>1, HandleQueue DEF Owns
      <3>4. \A i \in 1..Len(cq) : cq[i].id = d =>
              i - 1 \in 1..Len(cq') /\ cq'[i - 1] = cq[i]
        BY <3>1, <3>3, <1>1, HandleQueue
      <3> QED
        BY <3>2, <3>4
    <2>7. \A d \in Conns : pt'[d].phase \in Waiting /\ ~aborted' =>
            \/ \E o \in ring' : Awaited(o) /\ o.id = d
            \/ \E i \in DOMAIN cq' : Awaited(cq'[i]) /\ cq'[i].id = d
      BY <2>6, <1>1, HandleQueue
    <2> QED
      BY <2>1, <2>2, <2>3, <2>4, <2>5, <2>7, Zenon DEF OneOp
  <1> QED
    BY <1>1, <1>5, <1>6 DEF OpsInv

(* A completion nobody waits for is handled, or the process aborts.        *)
LEMMA HandledNone ==
  ASSUME OpsType, OpsInv, ~aborted, cq # <<>>, cq' = Tail(cq),
         ring' = ring, pt' = pt,
         ~Awaited(Head(cq)) \/ aborted'
  PROVE  OpsInv'
  <1>1. QueueOK /\ QueueOK'
    BY HandleQueue DEF OpsInv
  <1>2. PendingOK'
    BY <1>1, HandleQueue DEF OpsInv, PendingOK
  <1>3. OneOp'
    <2>1. \A o \in ring' : Awaited(o) => pt'[o.id].phase = o.kind
      BY DEF OpsInv, OneOp
    <2>2. \A i \in DOMAIN cq' : Awaited(cq'[i]) => pt'[cq'[i].id].phase = cq'[i].kind
      BY <1>1, HandleQueue DEF OpsInv, OneOp
    <2>3. \A o, p \in ring' : Awaited(o) /\ Awaited(p) /\ o.id = p.id => o = p
      BY DEF OpsInv, OneOp
    <2>4. ASSUME NEW i \in DOMAIN cq', NEW j \in DOMAIN cq',
                 Awaited(cq'[i]), Awaited(cq'[j]), cq'[i].id = cq'[j].id
          PROVE  i = j
      BY <1>1, <2>4, QueueShift DEF OpsInv
    <2>5. \A o \in ring' : \A i \in DOMAIN cq' :
            Awaited(o) /\ Awaited(cq'[i]) => o.id # cq'[i].id
      BY <1>1, HandleQueue DEF OpsInv, OneOp
    <2>6. ASSUME NEW d \in Conns, pt'[d].phase \in Waiting, ~aborted'
          PROVE  \/ \E o \in ring' : Awaited(o) /\ o.id = d
                 \/ \E i \in 1..Len(cq') : Awaited(cq'[i]) /\ cq'[i].id = d
      <3>1. \/ \E o \in ring : Awaited(o) /\ o.id = d
            \/ \E i \in 1..Len(cq) : Awaited(cq[i]) /\ cq[i].id = d
        BY <2>6, <1>1, HandleQueue DEF OpsInv, OneOp
      <3>2. ~Awaited(cq[1])
        BY <2>6, <1>1, HandleQueue
      <3> QED
        BY <3>1, <3>2, <1>1, HandleQueue, SMTT(30)
    <2>7. \A d \in Conns : pt'[d].phase \in Waiting /\ ~aborted' =>
            \/ \E o \in ring' : Awaited(o) /\ o.id = d
            \/ \E i \in DOMAIN cq' : Awaited(cq'[i]) /\ cq'[i].id = d
      BY <2>6, <1>1, HandleQueue
    <2> QED
      BY <2>1, <2>2, <2>3, <2>4, <2>5, <2>7, Zenon DEF OneOp
  <1> QED
    BY <1>1, <1>2, <1>3 DEF OpsInv

(* A client is accepted, or an accept fails.                               *)
LEMMA PostAccept ==
  ASSUME OpsType, OpsInv, NEW d \in Conns \cup {None}, NEW r \in Int,
         Post("accept", d, r), ring' = ring, aborted' = aborted,
         \/ r < 0 /\ pt' = pt
         \/ /\ r \in Fd /\ d \in Conns /\ pt[d].phase = "none"
            /\ pt' = [pt EXCEPT ![d].phase = "pending"]
  PROVE  OpsInv' /\ cq' \in Seq(Completion)
  <1> DEFINE e == [kind |-> "accept", id |-> d, res |-> r]
             n == Len(cq) + 1
  <1>1. /\ e \in Completion /\ e.kind = "accept" /\ e.id = d /\ e.res = r
        /\ ~Awaited(e)
    BY DEF Completion, Awaited
  <1>2. cq' = Append(cq, e)
    BY DEF Post
  <1>3. /\ cq' \in Seq(Completion) /\ cq \in Seq(Completion)
        /\ Len(cq) \in Nat /\ Len(cq') = n
        /\ DOMAIN cq = 1..Len(cq) /\ DOMAIN cq' = 1..n
        /\ cq'[n] = e
        /\ \A i \in 1..Len(cq) : cq'[i] = cq[i] /\ i \in 1..n
    BY <1>1, <1>2, QueueAppend, LenProperties DEF OpsType
  <1>4. \A i \in 1..n : i = n \/ i \in 1..Len(cq)
    BY <1>3
  <1>5. n \in 1..n
    BY <1>3
  <1> HIDE DEF e, n
  <1>6. QueueOK'
    BY <1>1, <1>3, <1>4 DEF QueueOK, WellFormed, OpsInv, Fd
  <1>7. CASE r < 0 /\ pt' = pt
    <2>1. PendingOK'
      BY <1>1, <1>3, <1>4, <1>7 DEF PendingOK, OpsInv
    <2>2. OneOp'
      BY <1>1, <1>3, <1>4, <1>7 DEF OneOp, OpsInv
    <2> QED
      BY <1>3, <1>6, <2>1, <2>2 DEF OpsInv
  <1>8. CASE /\ r \in Fd /\ d \in Conns /\ pt[d].phase = "none"
             /\ pt' = [pt EXCEPT ![d].phase = "pending"]
    <2>1. /\ \A x \in Conns : x # d => pt'[x] = pt[x]
          /\ pt'[d].phase = "pending"
      BY <1>8 DEF OpsType, Task
    <2>2. "none" \notin Waiting /\ "pending" \notin Waiting
      BY DEF Waiting
    <2>3. \A i \in 1..Len(cq) :
            /\ Awaited(cq[i]) => cq[i].id \in Conns /\ cq[i].kind \in Waiting
            /\ cq[i].kind = "accept" /\ cq[i].res >= 0 => cq[i].id \in Conns
      <3>1. \A i \in 1..Len(cq) : cq[i] \in Completion
        BY <1>3, ElementOfSeq
      <3> QED
        BY <3>1 DEF OpsInv, QueueOK, WellFormed, Awaited, Completion, OpKinds
    <2>4. \A o \in ring : Awaited(o) => o.id \in Conns /\ o.kind \in Waiting
      BY DEF OpsType, Awaited, OpKinds
    <2>5. \A i \in 1..Len(cq) : cq[i].kind = "accept" /\ cq[i].res >= 0 => cq[i].id # d
      BY <1>8 DEF OpsInv, PendingOK
    <2>6. \A i \in 1..Len(cq) : Awaited(cq[i]) => cq[i].id # d
      BY <1>3, <1>8, <2>2, <2>3 DEF OpsInv, OneOp
    <2>7. \A o \in ring : Awaited(o) => o.id # d
      BY <1>8, <2>2, <2>4 DEF OpsInv, OneOp
    <2>8. PendingOK'
      BY <1>1, <1>3, <1>4, <2>1, <2>3, <2>5, SMTT(30) DEF PendingOK, OpsInv
    <2>9. OneOp'
      BY <1>1, <1>3, <1>4, <2>1, <2>2, <2>3, <2>4, <2>6, <2>7 DEF OneOp, OpsInv
    <2> QED
      BY <1>3, <1>6, <2>8, <2>9 DEF OpsInv
  <1> QED
    BY <1>7, <1>8

-----------------------------------------------------------------------------
(* The tasks the handlers compute.                                         *)

(* Preparing the header, or the splice, keeps path and client.             *)
LEMMA PreparedTasks ==
  ASSUME NEW t \in Task, NEW b \in BOOLEAN
  PROVE  /\ Responding(t) \in Task /\ Responding(t).path = t.path
         /\ Responding(t).client = t.client
         /\ Spliced(t, b) \in Task /\ Spliced(t, b).path = t.path
         /\ Spliced(t, b).file = t.file
  <1> DEFINE x == t.clean /\ t.file.ok
             y == t.clean /\ b
             n == t.file.size % Modulus
             o == 0
  <1>1. HdrLen \in Int /\ Modulus \in Nat /\ Modulus > 0
    BY ServerAssumption
  <1>2. x \in BOOLEAN /\ y \in BOOLEAN
    OBVIOUS
  <1>3. n \in Int /\ o \in Int
    BY <1>1 DEF Task, File
  <1>4. /\ Responding(t) = [t EXCEPT !.left = HdrLen, !.clean = x]
        /\ Spliced(t, b) = [t EXCEPT !.left = o, !.nbytes = n, !.in_pipe = o,
                                     !.piped = b, !.clean = y]
    BY Zenon DEF Responding, Spliced
  <1> DEFINE u == [t EXCEPT !.left = HdrLen, !.clean = x]
             v == [t EXCEPT !.left = o, !.nbytes = n, !.in_pipe = o, !.piped = b, !.clean = y]
  <1> HIDE DEF x, y, n, o
  <1>5. u \in Task /\ u.path = t.path /\ u.client = t.client
    BY <1>1, <1>2 DEF Task
  <1>6. v \in Task /\ v.path = t.path /\ v.file = t.file
    BY <1>2, <1>3 DEF Task
  <1> QED
    BY <1>4, <1>5, <1>6, Zenon

(* Results of the openat and of the statx go into the file of the task.    *)
LEMMA OpenedTasks ==
  ASSUME NEW t \in Task, NEW r \in Int
  PROVE  /\ (r >= 0 => r \in Fd) =>
              Opened(t, r) \in Task /\ Opened(t, r).path = t.path
         /\ Stated(t, r) \in Task /\ Stated(t, r).path = t.path
         /\ Stated(t, r).client = t.client
  <1>1. CASE r < 0
    <2>1. /\ [t EXCEPT !.file.ok = FALSE] \in Task
          /\ [t EXCEPT !.file.ok = FALSE].path = t.path
          /\ [t EXCEPT !.file.ok = FALSE].client = t.client
      BY DEF Task, File
    <2> QED
      BY <1>1, <2>1, Zenon DEF Opened, Stated
  <1>2. CASE ~(r < 0)
    <2>1. r \in Nat
      BY <1>2
    <2>2. /\ r \in Fd => [t EXCEPT !.file.fd = r] \in Task
          /\ [t EXCEPT !.file.fd = r].path = t.path
      BY DEF Task, File
    <2>3. /\ [t EXCEPT !.file.size = r] \in Task
          /\ [t EXCEPT !.file.size = r].path = t.path
          /\ [t EXCEPT !.file.size = r].client = t.client
      BY <2>1 DEF Task, File
    <2>4. r >= 0
      BY <1>2
    <2> QED
      BY <1>2, <2>2, <2>3, <2>4, Zenon DEF Opened, Stated
  <1> QED
    BY <1>1, <1>2

(* A hit copies the file_t of the node found.                              *)
LEMMA CopiedTask ==
  ASSUME OthersType, NEW t \in Task, t.path \in Paths, Found(t)
  PROVE  /\ Copied(t) \in Task /\ Copied(t).path = t.path
         /\ Copied(t).client = t.client
  <1>1. map[t.path] \in Conns
    BY DEF OthersType, FC!TypeOK, Found, FC!Hit
  <1>2. node[map[t.path]] \in File
    BY <1>1 DEF OthersType
  <1> QED
    BY <1>2 DEF Copied, Task

(* The file a request is served with, and the locals it begins with.       *)
LEMMA DispatchedTask ==
  ASSUME NEW t \in Task, NEW r \in Received, NEW g \in Garbage
  PROVE  /\ Dispatched(t, r, g) \in Task /\ Dispatched(t, r, g).path = Target(r)
         /\ Target(r) \in Paths \cup {None}
  <1> DEFINE p == Target(r)
             b == Tests(r)
             l == IF b THEN g ELSE NoFile
  <1>1. p \in Paths \cup {None}
    BY ServerAssumption DEF Target
  <1>2. b \in BOOLEAN
    BY DEF Tests
  <1>3. l \in File
    <2>1. 0 \in Fd
      BY ServerAssumption DEF Fd
    <2> QED
      BY <2>1, ServerAssumption DEF NoFile, File
  <1>4. Dispatched(t, r, g) = [t EXCEPT !.path = p, !.test = b, !.file = l]
    BY Zenon DEF Dispatched
  <1> HIDE DEF p, b, l
  <1>5. [t EXCEPT !.path = p, !.test = b, !.file = l] \in Task
    BY <1>1, <1>2, <1>3 DEF Task
  <1>6. [t EXCEPT !.path = p, !.test = b, !.file = l].path = p
    BY DEF Task
  <1> QED
    BY <1>1, <1>4, <1>5, <1>6 DEF p

(* What is left of a protothread that ended.                               *)
LEMMA EndedTask ==
  ASSUME NEW t \in Task, NEW how \in {"closed", "kept"}
  PROVE  Ended(t, how) \in Task /\ Ended(t, how).phase \notin Waiting
  <1>1. 0 \in Fd
    BY ServerAssumption DEF Fd
  <1>2. NoTask \in Task
    BY <1>1 DEF NoTask, NoFile, File, Task, Phases
  <1>3. how \in Phases /\ how \notin Waiting
    BY DEF Phases, Waiting
  <1>4. t.path \in Paths \cup {None} /\ t.clean \in BOOLEAN /\ t.test \in BOOLEAN
    BY DEF Task
  <1>5. /\ Ended(t, how) = [NoTask EXCEPT !.phase = how, !.path = t.path,
                                        !.test = t.test, !.clean = t.clean]
        /\ NoTask.phase = "none"
    BY Zenon DEF Ended, NoTask
  <1> QED
    BY <1>2, <1>3, <1>4, <1>5 DEF Task

-----------------------------------------------------------------------------
(* What a handler does with the protothread of the completion at the head. *)

\* The completion at the head of the queue is handled, and c owns it.
Turn(c) == ~aborted /\ cq # <<>> /\ cq' = Tail(cq) /\ Owns(c, Head(cq))

(* It suspends c as task t on operation k, evicting files on the way.      *)
LEMMA SuspendEvicting ==
  ASSUME Tasks, NEW c \in Conns, Turn(c),
         NEW t \in Task, NEW k \in Waiting, NEW f \in Fd,
         k # "recv" => t.path \in Paths,
         NEW E \in SUBSET [kind : {"evict"}, id : Conns, fd : Fd],
         pt' = [pt EXCEPT ![c] = [t EXCEPT !.phase = k]],
         ring' = ring \cup {Op(k, c, f)} \cup E
  PROVE  Tasks'
  <1>1. /\ OpsType /\ OpsInv /\ ~aborted /\ cq # <<>> /\ cq' = Tail(cq)
        /\ Owns(c, Head(cq)) /\ QueueOK
    BY DEF Tasks, Turn, OpsInv
  <1>2. [t EXCEPT !.phase = k] \in Task /\ [t EXCEPT !.phase = k].phase = k
        /\ [t EXCEPT !.phase = k].path = t.path
    BY DEF Task, Phases
  <1>3. /\ pt' \in [Conns -> Task] /\ pt'[c].phase = k /\ pt'[c].path = t.path
        /\ \A d \in Conns \ {c} : pt'[d] = pt[d]
    BY <1>1, <1>2 DEF OpsType
  <1>4. OpsInv'
    <2>1. \A x \in E : x.kind = "evict"
      OBVIOUS
    <2> QED
      BY <1>1, <1>3, <2>1, HandledAwait
  <1>5. OpsType'
    <2>1. Op(k, c, f) \in [kind : OpKinds, id : Conns, fd : Fd]
      BY DEF Op, OpKinds
    <2>2. E \subseteq [kind : OpKinds, id : Conns, fd : Fd]
      BY DEF OpKinds
    <2>3. cq' \in Seq(Completion)
      BY <1>1, HandleQueue
    <2> QED
      BY <1>1, <1>3, <2>1, <2>2, <2>3 DEF OpsType
  <1>6. PathOK'
    BY <1>3 DEF PathOK, Tasks, Serving
  <1> QED
    BY <1>4, <1>5, <1>6 DEF Tasks

(* It suspends c as task t on operation k (PT_WAIT).                       *)
LEMMA Suspend ==
  ASSUME Tasks, NEW c \in Conns, Turn(c),
         NEW t \in Task, NEW k \in Waiting, NEW f \in Fd,
         k # "recv" => t.path \in Paths,
         Await(c, t, k, f)
  PROVE  Tasks'
  <1>1. {} \in SUBSET [kind : {"evict"}, id : Conns, fd : Fd]
    OBVIOUS
  <1>2. /\ pt' = [pt EXCEPT ![c] = [t EXCEPT !.phase = k]]
        /\ ring' = ring \cup {Op(k, c, f)} \cup {}
    BY DEF Await
  <1> QED
    BY <1>1, <1>2, SuspendEvicting

(* It ends the protothread of c, whose context is freed.                   *)
LEMMA Finish ==
  ASSUME Tasks, NEW c \in Conns, Turn(c),
         NEW t \in Task, t.phase \notin Waiting,
         pt' = [pt EXCEPT ![c] = t], ring' = ring
  PROVE  Tasks'
  <1>1. /\ OpsType /\ OpsInv /\ ~aborted /\ cq # <<>> /\ cq' = Tail(cq)
        /\ Owns(c, Head(cq)) /\ QueueOK
    BY DEF Tasks, Turn, OpsInv
  <1>2. /\ pt' \in [Conns -> Task] /\ pt'[c] = t
        /\ \A d \in Conns \ {c} : pt'[d] = pt[d]
    BY <1>1 DEF OpsType
  <1>3. OpsInv'
    BY <1>1, <1>2, HandledEnd
  <1>4. OpsType'
    BY <1>1, <1>2, HandleQueue DEF OpsType
  <1>5. PathOK'
    BY <1>2 DEF PathOK, Tasks, Serving
  <1> QED
    BY <1>3, <1>4, <1>5 DEF Tasks

(* It resumes nobody, or aborts the process.                               *)
LEMMA Resumeless ==
  ASSUME Tasks, ~aborted, cq # <<>>, cq' = Tail(cq), pt' = pt, ring' = ring,
         ~Awaited(Head(cq)) \/ aborted'
  PROVE  Tasks'
  <1>1. OpsType /\ OpsInv /\ QueueOK /\ PathOK
    BY DEF Tasks, OpsInv
  <1>2. OpsInv'
    BY <1>1, HandledNone
  <1>3. OpsType'
    BY <1>1, HandleQueue DEF OpsType
  <1>4. PathOK'
    BY <1>1 DEF PathOK
  <1> QED
    BY <1>2, <1>3, <1>4 DEF Tasks

-----------------------------------------------------------------------------
(* The handlers keep the invariant.                                        *)

\* The completion e is being handled.
Handling(e) ==
  /\ ~aborted /\ cq # <<>> /\ e = Head(cq) /\ cq' = Tail(cq)
  /\ UNCHANGED <<buf, pipe, out>>

(* A completion some protothread waits for: whose, and where it is.        *)
LEMMA AwaitedTurn ==
  ASSUME IInv, NEW e, Handling(e), e.kind \in Waiting
  PROVE  /\ e.id \in Conns /\ Turn(e.id) /\ e.res \in Int
         /\ pt[e.id] \in Task /\ pt[e.id].phase = e.kind
         /\ pt[e.id].client \in Fd /\ pt[e.id].file \in File
         /\ e.kind \in Serving => pt[e.id].path \in Paths
         /\ e.kind = "openat" /\ e.res >= 0 => e.res \in Fd
  <1>1. OpsType /\ QueueOK /\ OneOp /\ PathOK /\ cq # <<>> /\ cq' = Tail(cq)
    BY DEF IInv, Tasks, OpsInv, Handling
  <1>2. /\ e = cq[1] /\ 1 \in DOMAIN cq /\ e \in Completion /\ WellFormed(e)
    BY <1>1, HandleQueue DEF Handling
  <1>3. Awaited(e) /\ e.kind # "accept"
    BY DEF Awaited, Waiting
  <1>4. e.id \in Conns /\ e.res \in Int
    BY <1>2, <1>3 DEF WellFormed, Completion
  <1>5. Turn(e.id)
    BY <1>3 DEF Turn, Owns, Handling
  <1>6. /\ pt[e.id] \in Task /\ pt[e.id].client \in Fd /\ pt[e.id].file \in File
    BY <1>1, <1>4 DEF OpsType, Task
  <1>7. pt[e.id].phase = e.kind
    BY <1>1, <1>2, <1>3 DEF OneOp
  <1>8. e.kind \in Serving => pt[e.id].path \in Paths
    BY <1>1, <1>4, <1>7 DEF PathOK
  <1> QED
    BY <1>2, <1>4, <1>5, <1>6, <1>7, <1>8 DEF WellFormed

(* The variables a handler that touches no descriptor and no cache keeps.  *)
LEMMA OthersKept ==
  ASSUME OthersType, NEW e, Handling(e), UNCHANGED <<node, cache>>,
         fds' \in [Fd -> Desc], armed' \in Nat
  PROVE  OthersType'
  BY DEF OthersType, Handling, cache, FC!TypeOK

(* A look-up in the cache changes at most whether the process is aborted.  *)
LEMMA OthersLooked ==
  ASSUME OthersType, NEW e, Handling(e),
         UNCHANGED <<fds, armed, node, map, key, used, churned>>,
         aborted' \in BOOLEAN
  PROVE  OthersType'
  BY DEF OthersType, Handling, FC!TypeOK

(* A look-up that hits: the response starts, or the process aborts.        *)
LEMMA HitStep ==
  ASSUME IInv, NEW e, Handling(e), e.kind \in Waiting,
         NEW t \in Task, t.path \in Paths, OpenHit(e.id, t),
         UNCHANGED <<fds, armed>>
  PROVE  IInv'
  <1>1. /\ Tasks /\ OthersType /\ e.id \in Conns /\ Turn(e.id)
    BY AwaitedTurn DEF IInv
  <1>2. CASE FC!Get(t.path) /\ Respond(e.id, Copied(t)) /\ UNCHANGED node
    <2>1. Copied(t) \in Task /\ Copied(t).path = t.path
      BY <1>1, CopiedTask DEF OpenHit
    <2>2. /\ Responding(Copied(t)) \in Task
          /\ Responding(Copied(t)).path \in Paths
      BY <2>1, PreparedTasks
    <2>3. Copied(t).client \in Fd
      BY <2>1 DEF Task
    <2>4. "send" \in Waiting
      BY DEF Waiting
    <2>5. Tasks'
      BY <1>1, <1>2, <2>2, <2>3, <2>4, Suspend DEF Respond
    <2>6. OthersType'
      BY <1>1, <1>2, OthersLooked DEF FC!Get, FC!fcvars, OthersType, FC!TypeOK
    <2> QED
      BY <2>5, <2>6 DEF IInv
  <1>3. CASE FC!Abort(t.path) /\ UNCHANGED <<pt, ring, node>>
    <2>1. Tasks'
      BY <1>1, <1>3, Resumeless DEF FC!Abort, Turn
    <2>2. OthersType'
      BY <1>1, <1>3, OthersLooked DEF FC!Abort
    <2> QED
      BY <2>1, <2>2 DEF IInv
  <1> QED
    BY <1>2, <1>3 DEF OpenHit

(* The route /test ends the process.                                       *)
LEMMA CrashStep ==
  ASSUME IInv, NEW e, Handling(e), NEW t, Crash(t),
         UNCHANGED <<fds, armed, ring, pt, node>>
  PROVE  IInv'
  <1>1. Tasks /\ OthersType /\ ~aborted /\ cq # <<>> /\ cq' = Tail(cq)
    BY DEF IInv, Handling
  <1>2. aborted' = TRUE /\ UNCHANGED <<map, key, used, churned>>
    BY DEF Crash
  <1>3. Tasks'
    BY <1>1, <1>2, Resumeless
  <1>4. OthersType'
    BY <1>1, <1>2, OthersLooked
  <1> QED
    BY <1>3, <1>4 DEF IInv

LEMMA AcceptHandled ==
  ASSUME IInv, NEW e, Handling(e), HandleAccept(e)
  PROVE  IInv'
  <1>1. /\ Tasks /\ OthersType /\ OpsType /\ QueueOK /\ ~aborted
        /\ cq # <<>> /\ cq' = Tail(cq) /\ e = Head(cq) /\ e.kind = "accept"
    BY DEF IInv, Tasks, OpsInv, Handling, HandleAccept
  <1>2. e \in Completion /\ WellFormed(e)
    BY <1>1, HandleQueue
  <1>3. OthersType'
    <2>1. armed' \in Nat /\ fds' \in [Fd -> Desc]
      BY <1>1 DEF HandleAccept, Rearmed, OthersType
    <2> QED
      BY <1>1, <2>1, OthersKept DEF HandleAccept
  <1>4. CASE e.res < 0
    <2>1. ~Awaited(e)
      BY <1>1 DEF Awaited
    <2>2. Tasks'
      BY <1>1, <1>4, <2>1, Resumeless DEF HandleAccept
    <2> QED
      BY <1>3, <2>2 DEF IInv
  <1>5. CASE ~(e.res < 0)
    <2>1. e.res >= 0
      BY <1>2, <1>5 DEF Completion
    <2>2. e.id \in Conns /\ e.res \in Fd /\ Turn(e.id)
      BY <1>1, <1>2, <2>1 DEF WellFormed, Turn, Owns
    <2> DEFINE t == [pt[e.id] EXCEPT !.client = e.res]
    <2>3. t \in Task
      <3>1. pt[e.id] \in Task
        BY <1>1, <2>2 DEF OpsType
      <3> QED
        BY <2>2, <3>1 DEF Task
    <2>4. "recv" \in Waiting
      BY DEF Waiting
    <2>5. Await(e.id, t, "recv", e.res)
      BY <1>5 DEF HandleAccept
    <2> HIDE DEF t
    <2>6. Tasks'
      BY <1>1, <2>2, <2>3, <2>4, <2>5, Suspend
    <2> QED
      BY <1>3, <2>6 DEF IInv
  <1> QED
    BY <1>4, <1>5

LEMMA RecvHandled ==
  ASSUME IInv, NEW e, Handling(e), HandleRecv(e)
  PROVE  IInv'
  <1> DEFINE c == e.id
  <1>1. /\ Tasks /\ OthersType /\ e.kind = "recv" /\ e.kind \in Waiting
        /\ "recv" \in Waiting /\ "openat" \in Waiting
        /\ UNCHANGED <<fds, armed>>
    BY DEF IInv, HandleRecv, Waiting
  <1>2. /\ c \in Conns /\ Turn(c) /\ pt[c] \in Task /\ pt[c].client \in Fd
    BY <1>1, AwaitedTurn
  <1>3. \A g \in Garbage : LET t == Dispatched(pt[c], buf[c], g) IN
          t \in Task /\ t.path = Target(buf[c]) /\ t.path \in Paths \cup {None}
    <2>1. buf[c] \in Received
      BY <1>1, <1>2 DEF OthersType
    <2> QED
      BY <1>2, <2>1, DispatchedTask
  <1>4. UNCHANGED <<node, cache>> => OthersType'
    BY <1>1, OthersKept DEF OthersType
  <1>5. ASSUME NEW how \in {"dropped", "rejected", "unanswered"}, End(c, how)
        PROVE  IInv'
    <2> DEFINE u == [pt[c] EXCEPT !.phase = how]
    <2>1. u \in Task /\ u.phase \notin Waiting
      <3>1. how \in Phases /\ how \notin Waiting
        BY DEF Phases, Waiting
      <3> QED
        BY <1>2, <3>1 DEF Task
    <2>2. pt' = [pt EXCEPT ![c] = u] /\ ring' = ring
      BY <1>5 DEF End
    <2> HIDE DEF u
    <2>3. Tasks'
      BY <1>1, <1>2, <2>1, <2>2, Finish
    <2> QED
      BY <1>4, <1>5, <2>3 DEF End, IInv
  <1>6. CASE Await(c, pt[c], "recv", pt[c].client) /\ UNCHANGED <<node, cache>>
    BY <1>1, <1>2, <1>4, <1>6, Suspend DEF IInv
  <1>7. ASSUME NEW g \in Garbage, Target(buf[c]) # None,
               \/ OpenHit(c, Dispatched(pt[c], buf[c], g))
               \/ /\ Await(c, Dispatched(pt[c], buf[c], g), "openat", 0)
                  /\ UNCHANGED <<node, cache>>
        PROVE  IInv'
    <2> DEFINE t == Dispatched(pt[c], buf[c], g)
    <2>1. t \in Task /\ t.path \in Paths
      BY <1>3, <1>7
    <2>2. OpenHit(c, t) \/ (Await(c, t, "openat", 0) /\ UNCHANGED <<node, cache>>)
      BY <1>7
    <2> HIDE DEF t
    <2>3. CASE OpenHit(c, t)
      BY <1>1, <1>2, <2>1, <2>3, HitStep
    <2>4. CASE Await(c, t, "openat", 0) /\ UNCHANGED <<node, cache>>
      <3>1. 0 \in Fd
        BY ServerAssumption DEF Fd
      <3>2. Tasks'
        BY <1>1, <1>2, <2>1, <2>4, <3>1, Suspend
      <3> QED
        BY <1>4, <2>4, <3>2 DEF IInv
    <2> QED
      BY <2>2, <2>3, <2>4
  <1> QED
    BY <1>5, <1>6, <1>7 DEF HandleRecv

LEMMA OpenatHandled ==
  ASSUME IInv, NEW e, Handling(e), HandleOpenat(e)
  PROVE  IInv'
  <1> DEFINE c == e.id
             t == Opened(pt[c], e.res)
  <1>1. /\ Tasks /\ OthersType /\ e.kind = "openat" /\ e.kind \in Waiting
        /\ e.kind \in Serving /\ "statx" \in Waiting
        /\ UNCHANGED <<fds, armed>>
    BY DEF IInv, HandleOpenat, Waiting, Serving
  <1>2. /\ c \in Conns /\ Turn(c) /\ pt[c] \in Task /\ pt[c].path \in Paths
        /\ e.res \in Int /\ (e.res >= 0 => e.res \in Fd)
    BY <1>1, AwaitedTurn
  <1>3. t \in Task /\ t.path \in Paths
    BY <1>2, OpenedTasks
  <1> HIDE DEF t
  <1>4. CASE OpenHit(c, t)
    BY <1>1, <1>3, <1>4, HitStep
  <1>5. CASE Await(c, t, "statx", t.file.fd) /\ UNCHANGED <<node, cache>>
    <2>1. t.file.fd \in Fd
      BY <1>3 DEF Task, File
    <2>2. Tasks'
      BY <1>1, <1>2, <1>3, <1>5, <2>1, Suspend
    <2>3. OthersType'
      BY <1>1, <1>5, OthersKept DEF OthersType
    <2> QED
      BY <2>2, <2>3 DEF IInv
  <1> QED
    BY <1>4, <1>5 DEF HandleOpenat, t

(* LRU_cache_add keeps the types of the cache.                             *)
LEMMA AddType ==
  ASSUME FC!TypeOK, NEW p \in Paths, NEW c \in Conns, NEW v \in Conns \cup {None},
         FC!Add(p, c, v)
  PROVE  FC!TypeOK'
  <1>1. MapSlots \in Nat /\ None \notin Conns
    BY ServerAssumption
  <1>2. key' \in [Conns -> Paths \cup {None}]
    BY DEF FC!TypeOK, FC!Add
  <1>3. FC!Without(v) \in [Paths -> Conns \cup {None}]
    BY DEF FC!TypeOK, FC!Without
  <1>4. map' \in [Paths -> Conns \cup {None}]
    BY <1>3 DEF FC!Add
  <1>5. used' \in 0..MapSlots
    <2>1. used' = used \/ (used' = used + 1 /\ used # MapSlots)
      BY DEF FC!Add
    <2> QED
      BY <1>1, <2>1 DEF FC!TypeOK
  <1>6. churned' \in BOOLEAN /\ aborted' \in BOOLEAN
    BY DEF FC!TypeOK, FC!Add
  <1> QED
    BY <1>2, <1>4, <1>5, <1>6 DEF FC!TypeOK

LEMMA StatxHandled ==
  ASSUME IInv, NEW e, Handling(e), HandleStatx(e)
  PROVE  IInv'
  <1> DEFINE c == e.id
             t == Stated(pt[c], e.res)
  <1>1. /\ Tasks /\ OthersType /\ e.kind = "statx" /\ e.kind \in Waiting
        /\ e.kind \in Serving /\ "send" \in Waiting
        /\ UNCHANGED <<fds, armed>>
    BY DEF IInv, HandleStatx, Waiting, Serving
  <1>2. /\ c \in Conns /\ Turn(c) /\ pt[c] \in Task /\ pt[c].path \in Paths
        /\ e.res \in Int
    BY <1>1, AwaitedTurn
  <1>3. t \in Task /\ t.path \in Paths /\ t.client \in Fd /\ t.file \in File
    BY <1>2, OpenedTasks DEF Task
  <1> HIDE DEF t
  <1>4. CASE OpenHit(c, t)
    BY <1>1, <1>3, <1>4, HitStep
  <1>5. ASSUME NEW v \in Conns \cup {None}, FC!Add(t.path, c, v),
               pt' = [pt EXCEPT ![c] = [Responding(t) EXCEPT !.phase = "send"]],
               ring' = ring \cup {Op("send", c, t.client)} \cup EvictOps(c, t, v),
               node' = [node EXCEPT ![c] = t.file]
        PROVE  IInv'
    <2>1. EvictOps(c, t, v) \in SUBSET [kind : {"evict"}, id : Conns, fd : Fd]
      BY <1>1 DEF EvictOps, Op, OthersType, File
    <2>2. Responding(t) \in Task /\ Responding(t).path \in Paths
      BY <1>3, PreparedTasks
    <2>3. Tasks'
      BY <1>1, <1>2, <1>3, <1>5, <2>1, <2>2, SuspendEvicting
    <2>4. node' \in [Conns -> File]
      BY <1>1, <1>2, <1>3, <1>5 DEF OthersType
    <2>5. FC!TypeOK'
      BY <1>1, <1>2, <1>3, <1>5, AddType DEF OthersType
    <2>6. OthersType'
      BY <1>1, <2>4, <2>5 DEF OthersType, Handling
    <2> QED
      BY <2>3, <2>6 DEF IInv
  <1> QED
    BY <1>4, <1>5 DEF HandleStatx, t

(* async_io_sendfile keeps the invariant, with a pipe or without.          *)
LEMMA SendfileStep ==
  ASSUME IInv, NEW e, Handling(e), e.kind = "send",
         NEW t \in Task, t.path \in Paths, StartSendfile(e.id, t),
         UNCHANGED <<armed, node, cache>>
  PROVE  IInv'
  <1>1. /\ Tasks /\ OthersType /\ e.kind \in Waiting /\ "fill" \in Waiting
    BY DEF IInv, Waiting
  <1>2. e.id \in Conns /\ Turn(e.id) /\ t.file.fd \in Fd
    BY <1>1, AwaitedTurn DEF Task, File
  <1>3. ASSUME NEW b \in BOOLEAN, Await(e.id, Spliced(t, b), "fill", t.file.fd)
        PROVE  Tasks'
    BY <1>1, <1>2, <1>3, PreparedTasks, Suspend
  <1>4. Tasks'
    BY <1>3 DEF StartSendfile
  <1>5. fds' \in [Fd -> Desc]
    BY <1>1 DEF StartSendfile, OthersType, Desc
  <1>6. OthersType'
    BY <1>1, <1>5, OthersKept DEF OthersType
  <1> QED
    BY <1>4, <1>6 DEF IInv

(* So does what follows the header.                                        *)
LEMMA AfterHeaderStep ==
  ASSUME IInv, NEW e, Handling(e), e.kind = "send",
         NEW t \in Task, t.path \in Paths, AfterHeader(e.id, t),
         UNCHANGED <<armed, node>>
  PROVE  IInv'
  <1>1. CASE StartSendfile(e.id, t) /\ UNCHANGED cache
    BY <1>1, SendfileStep
  <1>2. CASE Crash(t) /\ UNCHANGED <<fds, pt, ring>>
    BY <1>2, CrashStep
  <1> QED
    BY <1>1, <1>2 DEF AfterHeader

LEMMA SendHandled ==
  ASSUME IInv, NEW e, Handling(e), HandleSend(e)
  PROVE  IInv'
  <1> DEFINE c == e.id
  <1>1. /\ Tasks /\ OthersType /\ e.kind = "send" /\ e.kind \in Waiting
        /\ e.kind \in Serving /\ "send" \in Waiting
        /\ UNCHANGED <<armed, node>>
    BY DEF IInv, HandleSend, Waiting, Serving
  <1>2. /\ c \in Conns /\ Turn(c) /\ pt[c] \in Task /\ pt[c].path \in Paths
        /\ e.res \in Int /\ pt[c].client \in Fd
    BY <1>1, AwaitedTurn
  <1>3. CASE AfterHeader(c, [pt[c] EXCEPT !.clean = FALSE])
    <2> DEFINE t == [pt[c] EXCEPT !.clean = FALSE]
    <2>1. t \in Task /\ t.path \in Paths
      BY <1>2 DEF Task
    <2> HIDE DEF t
    <2> QED
      BY <1>1, <1>3, <2>1, AfterHeaderStep DEF t
  <1>4. CASE AfterHeader(c, pt[c])
    BY <1>1, <1>2, <1>4, AfterHeaderStep
  <1>5. CASE /\ Await(c, [pt[c] EXCEPT !.left = @ - e.res], "send", pt[c].client)
             /\ UNCHANGED <<fds, cache>>
    <2> DEFINE n == pt[c].left - e.res
               t == [pt[c] EXCEPT !.left = n]
    <2>1. n \in Int
      BY <1>2 DEF Task
    <2> HIDE DEF n
    <2>2. t \in Task /\ t.path \in Paths
      BY <1>2, <2>1 DEF Task
    <2>3. Await(c, t, "send", pt[c].client)
      BY <1>5 DEF n
    <2> HIDE DEF t
    <2>4. Tasks'
      BY <1>1, <1>2, <2>2, <2>3, Suspend
    <2>5. OthersType'
      BY <1>1, <1>5, OthersKept DEF OthersType
    <2> QED
      BY <2>4, <2>5 DEF IInv
  <1> QED
    BY <1>3, <1>4, <1>5 DEF HandleSend

(* What follows the body keeps the invariant.                              *)
LEMMA AfterBodyStep ==
  ASSUME IInv, NEW e, Handling(e), e.kind \in {"fill", "drain"},
         NEW t \in Task, t.path \in Paths, AfterBody(e.id, t),
         UNCHANGED <<fds, armed, node>>
  PROVE  IInv'
  <1>1. /\ Tasks /\ OthersType /\ e.kind \in Waiting /\ "close" \in Waiting
    BY DEF IInv, Waiting
  <1>2. e.id \in Conns /\ Turn(e.id) /\ t.client \in Fd
    BY <1>1, AwaitedTurn DEF Task
  <1>3. UNCHANGED cache => OthersType'
    BY <1>1, OthersKept DEF OthersType
  <1>4. CASE Await(e.id, t, "close", t.client) /\ UNCHANGED cache
    <2>1. Tasks'
      BY <1>1, <1>2, <1>4, Suspend
    <2> QED
      BY <1>3, <1>4, <2>1 DEF IInv
  <1>5. CASE pt' = [pt EXCEPT ![e.id] = Ended(t, "kept")] /\ UNCHANGED <<ring, cache>>
    <2> DEFINE u == Ended(t, "kept")
    <2>1. u \in Task /\ u.phase \notin Waiting
      BY EndedTask
    <2>2. pt' = [pt EXCEPT ![e.id] = u]
      BY <1>5
    <2> HIDE DEF u
    <2>3. Tasks'
      BY <1>1, <1>2, <1>5, <2>1, <2>2, Finish
    <2> QED
      BY <1>3, <1>5, <2>3 DEF IInv
  <1>6. CASE Crash(t) /\ UNCHANGED <<pt, ring>>
    BY <1>6, CrashStep
  <1> QED
    BY <1>4, <1>5, <1>6 DEF AfterBody

(* So does a splice that failed.                                           *)
LEMMA SpliceFailedStep ==
  ASSUME IInv, NEW e, Handling(e), e.kind \in {"fill", "drain"},
         SpliceFailed(e.id), pt[e.id] \in Task, pt[e.id].path \in Paths,
         UNCHANGED <<fds, armed, node>>
  PROVE  IInv'
  <1> DEFINE t == [pt[e.id] EXCEPT !.clean = FALSE]
  <1>1. t \in Task /\ t.path \in Paths
    BY DEF Task
  <1>2. AfterBody(e.id, t)
    BY DEF SpliceFailed
  <1> HIDE DEF t
  <1> QED
    BY <1>1, <1>2, AfterBodyStep

LEMMA FillHandled ==
  ASSUME IInv, NEW e, Handling(e), HandleFill(e)
  PROVE  IInv'
  <1> DEFINE c == e.id
  <1>1. /\ Tasks /\ OthersType /\ e.kind = "fill" /\ e.kind \in Waiting
        /\ e.kind \in Serving /\ "drain" \in Waiting
        /\ UNCHANGED <<fds, armed, node>>
    BY DEF IInv, HandleFill, Waiting, Serving
  <1>2. /\ c \in Conns /\ Turn(c) /\ pt[c] \in Task /\ pt[c].path \in Paths
        /\ e.res \in Int /\ pt[c].client \in Fd
    BY <1>1, AwaitedTurn
  <1>3. CASE SpliceFailed(c)
    BY <1>1, <1>2, <1>3, SpliceFailedStep
  <1>4. CASE Await(c, Filled(pt[c], e.res), "drain", pt[c].client) /\ UNCHANGED cache
    <2> DEFINE n == (pt[c].nbytes - e.res) % Modulus
               m == pt[c].in_pipe + e.res
               t == [pt[c] EXCEPT !.nbytes = n, !.in_pipe = m]
    <2>1. n \in Int /\ m \in Int
      <3>1. Modulus \in Nat /\ Modulus > 0
        BY ServerAssumption
      <3> QED
        BY <1>2, <3>1 DEF Task
    <2> HIDE DEF n, m
    <2>2. t \in Task /\ t.path \in Paths
      BY <1>2, <2>1 DEF Task
    <2>3. Await(c, t, "drain", pt[c].client)
      BY <1>4 DEF n, m, Filled
    <2> HIDE DEF t
    <2>4. Tasks'
      BY <1>1, <1>2, <2>2, <2>3, Suspend
    <2>5. OthersType'
      BY <1>1, <1>4, OthersKept DEF OthersType
    <2> QED
      BY <2>4, <2>5 DEF IInv
  <1> QED
    BY <1>3, <1>4 DEF HandleFill

LEMMA DrainHandled ==
  ASSUME IInv, NEW e, Handling(e), HandleDrain(e)
  PROVE  IInv'
  <1> DEFINE c == e.id
             n == pt[c].in_pipe - e.res
             t == [pt[c] EXCEPT !.in_pipe = n]
  <1>1. /\ Tasks /\ OthersType /\ e.kind = "drain" /\ e.kind \in Waiting
        /\ e.kind \in Serving /\ "fill" \in Waiting
        /\ UNCHANGED <<fds, armed, node>>
    BY DEF IInv, HandleDrain, Waiting, Serving
  <1>2. /\ c \in Conns /\ Turn(c) /\ pt[c] \in Task /\ pt[c].path \in Paths
        /\ e.res \in Int
    BY <1>1, AwaitedTurn
  <1>3. n \in Int
    BY <1>2 DEF Task
  <1>4. \/ SpliceFailed(c)
        \/ AfterBody(c, t)
        \/ Await(c, t, "fill", t.file.fd) /\ UNCHANGED cache
    BY DEF HandleDrain
  <1> HIDE DEF n
  <1>5. t \in Task /\ t.path \in Paths /\ t.file.fd \in Fd
    <2>1. t \in Task /\ t.path \in Paths
      BY <1>2, <1>3 DEF Task
    <2> QED
      BY <2>1 DEF Task, File
  <1> HIDE DEF t
  <1>6. CASE SpliceFailed(c)
    BY <1>1, <1>2, <1>6, SpliceFailedStep
  <1>7. CASE AfterBody(c, t)
    BY <1>1, <1>5, <1>7, AfterBodyStep
  <1>8. CASE Await(c, t, "fill", t.file.fd) /\ UNCHANGED cache
    <2>1. Tasks'
      BY <1>1, <1>2, <1>5, <1>8, Suspend
    <2>2. OthersType'
      BY <1>1, <1>8, OthersKept DEF OthersType
    <2> QED
      BY <2>1, <2>2 DEF IInv
  <1> QED
    BY <1>4, <1>6, <1>7, <1>8

LEMMA CloseHandled ==
  ASSUME IInv, NEW e, Handling(e), HandleClose(e)
  PROVE  IInv'
  <1> DEFINE c == e.id
             t == Ended(pt[c], "closed")
  <1>1. /\ Tasks /\ OthersType /\ e.kind = "close" /\ e.kind \in Waiting
        /\ UNCHANGED <<fds, armed, ring, node, cache>>
        /\ pt' = [pt EXCEPT ![c] = t]
    BY DEF IInv, HandleClose, Waiting
  <1>2. c \in Conns /\ Turn(c) /\ pt[c] \in Task
    BY <1>1, AwaitedTurn
  <1>3. t \in Task /\ t.phase \notin Waiting
    BY <1>2, EndedTask
  <1> HIDE DEF t
  <1>4. Tasks'
    BY <1>1, <1>2, <1>3, Finish
  <1>5. OthersType'
    BY <1>1, OthersKept DEF OthersType
  <1> QED
    BY <1>4, <1>5 DEF IInv

LEMMA EvictHandled ==
  ASSUME IInv, NEW e, Handling(e), HandleEvict(e)
  PROVE  IInv'
  <1>1. /\ Tasks /\ OthersType /\ ~Awaited(e)
        /\ UNCHANGED <<fds, armed, ring, pt, node, cache>>
    BY DEF IInv, HandleEvict, Awaited
  <1>2. Tasks'
    BY <1>1, Resumeless DEF Handling
  <1>3. OthersType'
    BY <1>1, OthersKept DEF OthersType
  <1> QED
    BY <1>2, <1>3 DEF IInv

(* One turn of the event loop keeps the invariant.                         *)
LEMMA HandleStep ==
  ASSUME IInv, ~aborted, Handle
  PROVE  IInv'
  <1>1. Handling(Head(cq))
    BY DEF Handle, Handling
  <1> QED
    BY <1>1, AcceptHandled, RecvHandled, OpenatHandled, StatxHandled, SendHandled,
       FillHandled, DrainHandled, CloseHandled, EvictHandled DEF Handle

-----------------------------------------------------------------------------
(* The kernel keeps the invariant.                                         *)

\* The variables no operation of the kernel assigns.
ServerKept == UNCHANGED <<armed, pt, node, cache>>

(* An operation is completed: with a result in Int, a descriptor if it     *)
(* opened a file, and leaving the variables of the kernel in their types.  *)
LEMMA CompleteStep ==
  ASSUME IInv, ~aborted, NEW o \in ring, NEW r \in Int, Complete(o, r),
         o.kind = "openat" /\ r >= 0 => r \in Fd,
         ServerKept,
         fds' \in [Fd -> Desc], buf' \in [Conns -> Received],
         pipe' \in [Conns -> Seq(Paths \X Nat)],
         out' \in [Conns -> [hdr : Nat, len : Int, body : Seq(Paths \X Nat)]]
  PROVE  IInv'
  <1>1. OpsType /\ OpsInv /\ PathOK /\ OthersType /\ pt' = pt
    BY DEF IInv, Tasks, ServerKept
  <1>2. OpsInv' /\ cq' \in Seq(Completion)
    BY <1>1, CompleteOps
  <1>3. OpsType'
    BY <1>1, <1>2 DEF OpsType, Complete
  <1>4. PathOK'
    BY <1>1 DEF PathOK
  <1>5. OthersType'
    BY <1>1 DEF OthersType, ServerKept, cache, FC!TypeOK
  <1> QED
    BY <1>2, <1>3, <1>4, <1>5 DEF IInv, Tasks

(* What a descriptor may refer to.                                         *)
LEMMA DescFields ==
  ASSUME NEW d \in Desc
  PROVE  /\ d.kind = "file" => d.of \in Paths
         /\ d.kind = "client" => d.of \in Conns
  <1>1. CASE d \in {Free, Std, Pipe}
    BY <1>1 DEF Free, Std, Pipe
  <1>2. CASE d \in {ClientOf(c) : c \in Conns}
    BY <1>2 DEF ClientOf
  <1>3. CASE d \in {FileOf(p) : p \in Paths}
    BY <1>3 DEF FileOf
  <1> QED
    BY <1>1, <1>2, <1>3 DEF Desc

(* The types of an operation in flight and of what it refers to.           *)
LEMMA InFlight ==
  ASSUME IInv, NEW o \in ring
  PROVE  /\ o.id \in Conns /\ o.fd \in Fd /\ pt[o.id] \in Task
         /\ fds[o.fd] \in Desc
         /\ fds[o.fd].kind = "file" => fds[o.fd].of \in Paths /\ Sizes[fds[o.fd].of] \in Nat
         /\ fds[o.fd].kind = "client" => fds[o.fd].of \in Conns
         /\ pipe[o.id] \in Seq(Paths \X Nat)
  <1>1. /\ o.id \in Conns /\ o.fd \in Fd /\ pt[o.id] \in Task
        /\ fds[o.fd] \in Desc /\ pipe[o.id] \in Seq(Paths \X Nat)
    BY DEF IInv, Tasks, OpsType, OthersType
  <1>2. /\ fds[o.fd].kind = "file" => fds[o.fd].of \in Paths
        /\ fds[o.fd].kind = "client" => fds[o.fd].of \in Conns
    BY <1>1, DescFields
  <1> QED
    BY <1>1, <1>2, ServerAssumption

LEMMA RecvStep ==
  ASSUME IInv, ~aborted, NEW o \in ring, KernelRecv(o)
  PROVE  IInv'
  <1>1. OthersType /\ o.kind # "openat"
    BY DEF IInv, KernelRecv
  <1>2. buf' \in [Conns -> Received]
    BY <1>1, ServerAssumption DEF KernelRecv, OthersType
  <1>3. ServerKept /\ (Complete(o, 0) \/ Complete(o, 1))
    BY DEF KernelRecv, ServerKept
  <1>4. /\ fds' \in [Fd -> Desc]
        /\ pipe' \in [Conns -> Seq(Paths \X Nat)]
        /\ out' \in [Conns -> [hdr : Nat, len : Int, body : Seq(Paths \X Nat)]]
    BY <1>1 DEF KernelRecv, OthersType
  <1>5. 0 \in Int /\ 1 \in Int
    OBVIOUS
  <1> QED
    BY <1>1, <1>2, <1>3, <1>4, <1>5, CompleteStep

LEMMA OpenatStep ==
  ASSUME IInv, ~aborted, NEW o \in ring, KernelOpenat(o)
  PROVE  IInv'
  <1>1. OthersType /\ ServerKept /\ o.kind = "openat" /\ UNCHANGED <<buf, pipe, out>>
    BY DEF IInv, KernelOpenat, ServerKept
  <1>2. o.id \in Conns /\ pt[o.id] \in Task
    BY InFlight
  <1>3. pt[o.id].path \in Paths
    <2>1. Awaited(o) /\ OneOp /\ PathOK
      BY <1>1 DEF Awaited, IInv, Tasks, OpsInv
    <2>2. pt[o.id].phase = "openat"
      BY <1>1, <2>1 DEF OneOp
    <2> QED
      BY <1>2, <2>1, <2>2 DEF PathOK, Serving, Waiting
  <1>4. CASE Complete(o, -1) /\ UNCHANGED fds
    <2>1. -1 \in Int /\ ~(-1 >= 0)
      OBVIOUS
    <2> QED
      BY <1>1, <1>4, <2>1, CompleteStep DEF OthersType
  <1>5. ASSUME NEW f \in Fd, fds' = [fds EXCEPT ![f] = FileOf(pt[o.id].path)],
               Complete(o, f)
        PROVE  IInv'
    <2>1. fds' \in [Fd -> Desc]
      BY <1>1, <1>3, <1>5 DEF OthersType, Desc
    <2>2. f \in Int
      BY DEF Fd
    <2> QED
      BY <1>1, <1>5, <2>1, <2>2, CompleteStep DEF OthersType
  <1> QED
    BY <1>4, <1>5 DEF KernelOpenat

LEMMA StatxStep ==
  ASSUME IInv, ~aborted, NEW o \in ring, KernelStatx(o)
  PROVE  IInv'
  <1>1. OthersType /\ ServerKept /\ o.kind # "openat" /\ UNCHANGED <<fds, buf, pipe, out>>
    BY DEF IInv, KernelStatx, ServerKept
  <1>2. fds[o.fd].kind = "file" => Sizes[fds[o.fd].of] \in Nat
    BY InFlight
  <1>3. \E r \in Int : Complete(o, r)
    BY <1>2 DEF KernelStatx
  <1> QED
    BY <1>1, <1>3, CompleteStep DEF OthersType

LEMMA SendStep ==
  ASSUME IInv, ~aborted, NEW o \in ring, KernelSend(o)
  PROVE  IInv'
  <1>1. OthersType /\ ServerKept /\ o.kind # "openat" /\ UNCHANGED <<fds, buf, pipe>>
    BY DEF IInv, KernelSend, ServerKept
  <1>2. /\ fds' \in [Fd -> Desc] /\ buf' \in [Conns -> Received]
        /\ pipe' \in [Conns -> Seq(Paths \X Nat)]
    BY <1>1 DEF OthersType
  <1>3. CASE Complete(o, -1) /\ UNCHANGED out
    <2>1. out' \in [Conns -> [hdr : Nat, len : Int, body : Seq(Paths \X Nat)]]
      BY <1>1, <1>3 DEF OthersType
    <2>2. -1 \in Int
      OBVIOUS
    <2> QED
      BY <1>1, <1>2, <1>3, <2>1, <2>2, CompleteStep
  <1>4. ASSUME fds[o.fd].kind = "client", NEW n \in 1..pt[o.id].left,
               out' = [out EXCEPT ![fds[o.fd].of].hdr = @ + n,
                                  ![fds[o.fd].of].len = pt[o.id].file.size],
               Complete(o, n)
        PROVE  IInv'
    <2> DEFINE d == fds[o.fd].of
               m == out[d].hdr + n
               l == pt[o.id].file.size
    <2>1. d \in Conns /\ n \in Nat /\ n \in Int /\ pt[o.id].file.size \in Int
      BY <1>4, InFlight DEF Task, File
    <2>2. out[d] \in [hdr : Nat, len : Int, body : Seq(Paths \X Nat)]
      BY <1>1, <2>1 DEF OthersType
    <2>3. m \in Nat /\ l \in Int
      BY <2>1, <2>2
    <2>4. out' = [out EXCEPT ![d] = [out[d] EXCEPT !.hdr = m, !.len = l]]
      BY <1>1, <1>4, <2>1 DEF OthersType
    <2> HIDE DEF m, l, d
    <2>5. [out[d] EXCEPT !.hdr = m, !.len = l] \in
            [hdr : Nat, len : Int, body : Seq(Paths \X Nat)]
      BY <2>2, <2>3
    <2>6. out' \in [Conns -> [hdr : Nat, len : Int, body : Seq(Paths \X Nat)]]
      BY <1>1, <2>1, <2>4, <2>5 DEF OthersType
    <2> QED
      BY <1>1, <1>2, <1>4, <2>1, <2>6, CompleteStep
  <1> QED
    BY <1>3, <1>4 DEF KernelSend

(* Units read from a file are units of that file.                          *)
LEMMA ContentsType ==
  ASSUME NEW p \in Paths, NEW n \in Nat
  PROVE  Contents(p, n) \in Seq(Paths \X Nat)
  <1>1. Contents(p, n) \in [1..n -> Paths \X Nat]
    BY DEF Contents
  <1> QED
    BY <1>1, SeqDef

LEMMA FillStep ==
  ASSUME IInv, ~aborted, NEW o \in ring, KernelFill(o)
  PROVE  IInv'
  <1>1. OthersType /\ ServerKept /\ o.kind # "openat" /\ UNCHANGED <<fds, buf, out>>
    BY DEF IInv, KernelFill, ServerKept
  <1>2. /\ fds' \in [Fd -> Desc] /\ buf' \in [Conns -> Received]
        /\ out' \in [Conns -> [hdr : Nat, len : Int, body : Seq(Paths \X Nat)]]
    BY <1>1 DEF OthersType
  <1>3. ASSUME NEW r \in Int, Complete(o, r), UNCHANGED pipe
        PROVE  IInv'
    <2>1. pipe' \in [Conns -> Seq(Paths \X Nat)]
      BY <1>1, <1>3 DEF OthersType
    <2> QED
      BY <1>1, <1>2, <1>3, <2>1, CompleteStep
  <1>4. ASSUME fds[o.fd].kind = "file", NEW m, NEW n \in 0..m,
               pipe' = [pipe EXCEPT ![o.id] = @ \o Contents(fds[o.fd].of, n)],
               Complete(o, n)
        PROVE  IInv'
    <2> DEFINE w == pipe[o.id] \o Contents(fds[o.fd].of, n)
    <2>1. /\ o.id \in Conns /\ pipe[o.id] \in Seq(Paths \X Nat)
          /\ fds[o.fd].of \in Paths /\ n \in Nat /\ n \in Int
      BY <1>4, InFlight
    <2>2. w \in Seq(Paths \X Nat)
      BY <2>1, ContentsType, ConcatProperties
    <2>3. pipe' = [pipe EXCEPT ![o.id] = w]
      BY <1>4
    <2> HIDE DEF w
    <2>4. pipe' \in [Conns -> Seq(Paths \X Nat)]
      BY <1>1, <2>1, <2>2, <2>3 DEF OthersType
    <2> QED
      BY <1>1, <1>2, <1>4, <2>1, <2>4, CompleteStep
  <1>5. 0 \in Int /\ -1 \in Int
    OBVIOUS
  <1> QED
    BY <1>3, <1>4, <1>5 DEF KernelFill

LEMMA DrainStep ==
  ASSUME IInv, ~aborted, NEW o \in ring, KernelDrain(o)
  PROVE  IInv'
  <1>1. OthersType /\ ServerKept /\ o.kind # "openat" /\ UNCHANGED <<fds, buf>>
    BY DEF IInv, KernelDrain, ServerKept
  <1>2. fds' \in [Fd -> Desc] /\ buf' \in [Conns -> Received]
    BY <1>1 DEF OthersType
  <1>3. CASE Complete(o, -1) /\ UNCHANGED <<out, pipe>>
    <2>1. /\ pipe' \in [Conns -> Seq(Paths \X Nat)]
          /\ out' \in [Conns -> [hdr : Nat, len : Int, body : Seq(Paths \X Nat)]]
      BY <1>1, <1>3 DEF OthersType
    <2>2. -1 \in Int
      OBVIOUS
    <2> QED
      BY <1>1, <1>2, <1>3, <2>1, <2>2, CompleteStep
  <1> DEFINE d == fds[o.fd].of
             q == pipe[o.id]
  <1>4. ASSUME fds[o.fd].kind = "client",
               NEW n \in 0..Least(pt[o.id].in_pipe, Len(q)),
               out' = [out EXCEPT ![d].body = @ \o SubSeq(q, 1, n)],
               pipe' = [pipe EXCEPT ![o.id] = SubSeq(@, n + 1, Len(@))],
               Complete(o, n)
        PROVE  IInv'
    <2>1. /\ o.id \in Conns /\ d \in Conns /\ q \in Seq(Paths \X Nat)
          /\ pt[o.id].in_pipe \in Int
      BY <1>4, InFlight DEF Task
    <2>2. /\ out[d] \in [hdr : Nat, len : Int, body : Seq(Paths \X Nat)]
      BY <1>1, <2>1 DEF OthersType
    <2>3. Len(q) \in Nat
      BY <2>1, LenProperties
    <2>4. n \in Nat /\ n \in Int /\ n <= Len(q)
      BY <2>1, <2>3 DEF Least
    <2> DEFINE u == SubSeq(q, 1, n)
               v == SubSeq(q, n + 1, Len(q))
               b == out[d].body \o u
    <2>5. u \in Seq(Paths \X Nat) /\ v \in Seq(Paths \X Nat)
      BY <2>1, <2>3, <2>4, SubSeqProperties
    <2>6. b \in Seq(Paths \X Nat)
      BY <2>2, <2>5, ConcatProperties
    <2>7. pipe' = [pipe EXCEPT ![o.id] = v]
      BY <1>4
    <2>8. out' = [out EXCEPT ![d] = [out[d] EXCEPT !.body = b]]
      BY <1>1, <1>4, <2>1 DEF OthersType
    <2> HIDE DEF d, q, u, v, b
    <2>9. pipe' \in [Conns -> Seq(Paths \X Nat)]
      BY <1>1, <2>1, <2>5, <2>7 DEF OthersType
    <2>10. [out[d] EXCEPT !.body = b] \in [hdr : Nat, len : Int, body : Seq(Paths \X Nat)]
      BY <2>2, <2>6
    <2>11. out' \in [Conns -> [hdr : Nat, len : Int, body : Seq(Paths \X Nat)]]
      BY <1>1, <2>1, <2>8, <2>10 DEF OthersType
    <2> QED
      BY <1>1, <1>2, <1>4, <2>4, <2>9, <2>11, CompleteStep
  <1> QED
    BY <1>3, <1>4 DEF KernelDrain

LEMMA CloseStep ==
  ASSUME IInv, ~aborted, NEW o \in ring, KernelClose(o)
  PROVE  IInv'
  <1>1. OthersType /\ ServerKept /\ o.kind # "openat" /\ UNCHANGED <<buf, pipe, out>>
    BY DEF IInv, KernelClose, ServerKept
  <1>2. /\ buf' \in [Conns -> Received]
        /\ pipe' \in [Conns -> Seq(Paths \X Nat)]
        /\ out' \in [Conns -> [hdr : Nat, len : Int, body : Seq(Paths \X Nat)]]
    BY <1>1 DEF OthersType
  <1>3. fds' \in [Fd -> Desc]
    BY <1>1 DEF KernelClose, OthersType, Desc
  <1>4. \E r \in Int : Complete(o, r)
    BY DEF KernelClose
  <1> QED
    BY <1>1, <1>2, <1>3, <1>4, CompleteStep

LEMMA AcceptStep ==
  ASSUME IInv, ~aborted, NEW c \in Conns, KernelAccept(c)
  PROVE  IInv'
  <1>1. /\ OpsType /\ OpsInv /\ PathOK /\ OthersType
        /\ UNCHANGED <<ring, buf, pipe, out, node, cache>> /\ aborted' = aborted
    BY DEF IInv, Tasks, KernelAccept, cache
  <1>2. PICK f \in Fd : fds' = [fds EXCEPT ![f] = ClientOf(c)] /\ Post("accept", c, f)
    BY DEF KernelAccept
  <1>3. pt[c].phase = "none" /\ pt' = [pt EXCEPT ![c].phase = "pending"]
    BY DEF KernelAccept
  <1>4. f \in Int
    BY DEF Fd
  <1>5. OpsInv' /\ cq' \in Seq(Completion)
    BY <1>1, <1>2, <1>3, <1>4, PostAccept
  <1>6. pt' \in [Conns -> Task]
    BY <1>1, <1>3, ZenonT(30) DEF OpsType, Task, Phases
  <1>7. OpsType'
    BY <1>1, <1>5, <1>6 DEF OpsType
  <1>8. PathOK'
    <2>1. "pending" \notin Serving
      BY DEF Serving, Waiting
    <2> QED
      BY <1>1, <1>3, <2>1 DEF PathOK, OpsType, Task
  <1>9. OthersType'
    <2>1. fds' \in [Fd -> Desc]
      BY <1>1, <1>2 DEF OthersType, Desc
    <2>2. armed' \in Nat
      BY <1>1 DEF KernelAccept, OthersType
    <2> QED
      BY <1>1, <2>1, <2>2 DEF OthersType, cache, FC!TypeOK
  <1> QED
    BY <1>5, <1>7, <1>8, <1>9 DEF IInv, Tasks

LEMMA AcceptFailsStep ==
  ASSUME IInv, ~aborted, KernelAcceptFails
  PROVE  IInv'
  <1>1. /\ OpsType /\ OpsInv /\ PathOK /\ OthersType /\ pt' = pt
        /\ UNCHANGED <<fds, ring, buf, pipe, out, node, cache>> /\ aborted' = aborted
        /\ Post("accept", None, -1)
    BY DEF IInv, Tasks, KernelAcceptFails, cache
  <1>2. None \in Conns \cup {None} /\ -1 \in Int /\ -1 < 0
    OBVIOUS
  <1>3. OpsInv' /\ cq' \in Seq(Completion)
    BY <1>1, <1>2, PostAccept
  <1>4. OpsType' /\ PathOK'
    BY <1>1, <1>3 DEF OpsType, PathOK
  <1>5. armed' \in Nat
    BY <1>1 DEF KernelAcceptFails, OthersType
  <1>6. OthersType'
    BY <1>1, <1>5 DEF OthersType, cache, FC!TypeOK
  <1> QED
    BY <1>3, <1>4, <1>6 DEF IInv, Tasks

-----------------------------------------------------------------------------
(* The theorems.                                                           *)

LEMMA InitIInv == Init => IInv
  <1> SUFFICES ASSUME Init PROVE IInv
    OBVIOUS
  <1>1. 0 \in Fd
    BY ServerAssumption DEF Fd
  <1>2. NoTask \in Task
    BY <1>1 DEF NoTask, NoFile, File, Task, Phases
  <1>3. OpsType
    BY <1>2 DEF Init, OpsType
  <1>4. \A c \in Conns : pt[c].phase = "none"
    BY DEF Init, NoTask
  <1>5. "none" \notin Waiting
    BY DEF Waiting
  <1>6. cq = <<>> /\ ring = {} /\ Len(cq) = 0 /\ DOMAIN cq = {}
    BY DEF Init
  <1>7. OpsInv /\ PathOK
    BY <1>4, <1>5, <1>6 DEF OpsInv, QueueOK, PendingOK, OneOp, PathOK, Serving
  <1>8. OthersType
    <2>1. fds \in [Fd -> Desc]
      BY DEF Init, Desc
    <2>2. buf \in [Conns -> Received]
      BY DEF Init, Nothing, Received
    <2>3. armed \in Nat
      BY ServerAssumption DEF Init
    <2>4. node \in [Conns -> File]
      BY <1>1 DEF Init, NoFile, File
    <2>5. FC!TypeOK
      <3>1. MapSlots \in Nat
        BY ServerAssumption
      <3>2. used \in 0..MapSlots
        BY <3>1 DEF Init, FC!Init
      <3>3. /\ map \in [Paths -> Conns \cup {None}] /\ key \in [Conns -> Paths \cup {None}]
            /\ churned \in BOOLEAN /\ aborted \in BOOLEAN
        BY DEF Init, FC!Init
      <3> QED
        BY <3>2, <3>3 DEF FC!TypeOK
    <2>6. /\ pipe \in [Conns -> Seq(Paths \X Nat)]
          /\ out \in [Conns -> [hdr : Nat, len : Int, body : Seq(Paths \X Nat)]]
      BY DEF Init
    <2> QED
      BY <2>1, <2>2, <2>3, <2>4, <2>5, <2>6 DEF OthersType
  <1> QED
    BY <1>3, <1>7, <1>8 DEF IInv, Tasks

LEMMA NextIInv == IInv /\ [Next]_vars => IInv'
  <1> SUFFICES ASSUME IInv, [Next]_vars PROVE IInv'
    OBVIOUS
  <1>1. CASE UNCHANGED vars
    BY <1>1 DEF vars, kernel, cache, IInv, Tasks, OpsType, OthersType, OpsInv,
       QueueOK, PendingOK, PathOK, OneOp, FC!TypeOK
  <1>2. ASSUME ~aborted, NEW o \in ring, Kernel(o) PROVE IInv'
    BY <1>2, RecvStep, OpenatStep, StatxStep, SendStep, FillStep, DrainStep,
       CloseStep DEF Kernel
  <1>3. CASE Step
    BY <1>2, <1>3, AcceptStep, AcceptFailsStep, HandleStep DEF Step
  <1> QED
    BY <1>1, <1>3 DEF Next, Rest

LEMMA Inductive == Spec => []IInv
  BY InitIInv, NextIInv, PTL DEF Spec

(* Whatever operations fail, and however the completions are ordered, what *)
(* the handlers of async_io.c compute stays within its type: in particular *)
(* every descriptor they submit is one the kernel once handed out, or 0.   *)
THEOREM TypeCorrect == Spec => []TypeOK
  <1>1. IInv => TypeOK
    BY DEF IInv, Tasks, OpsType, OthersType, TypeOK, Completion
  <1> QED
    BY <1>1, Inductive, PTL

(* A suspended protothread has exactly one operation in flight or          *)
(* completed, and any other none: no completion resumes a protothread that *)
(* has ended, and none is left waiting for an operation nobody submitted.  *)
THEOREM OneOpPerTask == Spec => []OneOp
  <1>1. IInv => OneOp
    BY DEF IInv, Tasks, OpsInv
  <1> QED
    BY <1>1, Inductive, PTL

-----------------------------------------------------------------------------
(* Owners of descriptors.                                                  *)

\* The phases before a file is copied into the protothread.
Early == {"none", "pending", "recv", "openat", "statx"}
Responds == {"send", "fill", "drain"}

\* The descriptor on which a protothread waits.
FdOf(k, t) == IF k \in {"statx", "fill"} THEN t.file.fd
              ELSE IF k = "openat" THEN 0 ELSE t.client

\* An operation acts on the descriptor of the protothread that waits for it.
RingFds == \A o \in ring : o.kind # "evict" => o.fd = FdOf(o.kind, pt[o.id])

\* A close of an evicted file acts on what its node still holds.
Evicts ==
  \A o \in ring : o.kind = "evict" =>
    /\ churned /\ o.fd = node[o.id].fd
    /\ key[o.id] = None /\ pt[o.id].phase \notin Early

MapKey == \A p \in Paths : map[p] # None => key[map[p]] = p
EarlyFresh == \A c \in Conns : pt[c].phase \in Early => node[c] = NoFile /\ key[c] = None
KeyPath == \A c \in Conns : key[c] # None => key[c] = pt[c].path

\* What holds of the cache's nodes whatever fails and whatever is evicted.
CInv == RingFds /\ Evicts /\ MapKey /\ EarlyFresh /\ KeyPath

\* No eviction yet, or no entry whose openat or statx failed.
AllOpened == \A n \in Conns : node[n].ok
Sane == ~churned \/ AllOpened

\* Descriptor f is the socket of connection c.
Closed(c) == \E q \in Queued : q.kind = "close" /\ q.id = c
Socket(c, f) ==
  \/ \E q \in Queued : q.kind = "accept" /\ q.id = c /\ q.res = f
  \/ pt[c].phase \in Waiting /\ pt[c].client = f /\ ~Closed(c)

\* Descriptor f is the file that connection c opened, or that its node of
\* the cache holds, or that is about to be closed for it.
Claim(c, f) ==
  \/ \E q \in Queued : q.kind = "openat" /\ q.id = c /\ q.res = f
  \/ pt[c].phase = "statx" /\ pt[c].file.ok /\ pt[c].file.fd = f
  \/ key[c] # None /\ node[c].ok /\ node[c].fd = f
  \/ Op("evict", c, f) \in ring

Sockets == \A c \in Conns, f \in Fd : Socket(c, f) => fds[f] = ClientOf(c)
Claims ==
  /\ \A c \in Conns, f \in Fd : Claim(c, f) => fds[f] = FileOf(pt[c].path)
  /\ \A c, d \in Conns, f \in Fd : Claim(c, f) /\ Claim(d, f) => c = d
Measured ==
  \A q \in Queued : q.kind = "statx" /\ q.res >= 0 /\ pt[q.id].file.ok =>
    q.res = Sizes[pt[q.id].path]
SizeOK == \A n \in Conns : key[n] # None /\ node[n].ok => node[n].size = Sizes[key[n]]

Owned == Sockets /\ Claims /\ Measured /\ SizeOK

\* The inductive invariant of descriptors and cache.
GInv == IInv /\ CInv /\ (Sane => Owned)

-----------------------------------------------------------------------------
(* Completions as a set.                                                   *)

(* What OneOp and its neighbours say of the completions still to come.     *)
LEMMA QueueSet ==
  ASSUME IInv
  PROVE  /\ \A q \in Queued :
              /\ q \in Completion /\ WellFormed(q)
              /\ Awaited(q) => /\ q.id \in Conns /\ q.kind \in Waiting
                               /\ pt[q.id].phase = q.kind
              /\ q.kind = "accept" /\ q.res >= 0 => pt[q.id].phase = "pending"
         /\ \A o \in ring :
              /\ o \in [kind : OpKinds, id : Conns, fd : Fd]
              /\ Awaited(o) => pt[o.id].phase = o.kind /\ o.kind \in Waiting
         /\ \A o \in ring, q \in Queued : Awaited(o) /\ Awaited(q) => o.id # q.id
         /\ \A o, p \in ring : Awaited(o) /\ Awaited(p) /\ o.id = p.id => o = p
  <1>1. OpsType /\ QueueOK /\ PendingOK /\ OneOp
    BY DEF IInv, Tasks, OpsInv
  <1>2. DOMAIN cq = 1..Len(cq) /\ \A i \in 1..Len(cq) : cq[i] \in Completion
    BY <1>1, LenProperties, ElementOfSeq DEF OpsType
  <1>3. ASSUME NEW i \in 1..Len(cq)
        PROVE  /\ cq[i] \in Completion /\ WellFormed(cq[i])
               /\ Awaited(cq[i]) => /\ cq[i].id \in Conns /\ cq[i].kind \in Waiting
                                    /\ pt[cq[i].id].phase = cq[i].kind
               /\ cq[i].kind = "accept" /\ cq[i].res >= 0 => pt[cq[i].id].phase = "pending"
    <2>1. cq[i] \in Completion /\ WellFormed(cq[i])
      BY <1>1, <1>2 DEF QueueOK
    <2>2. Awaited(cq[i]) => /\ cq[i].id \in Conns /\ cq[i].kind \in Waiting
                            /\ pt[cq[i].id].phase = cq[i].kind
      BY <1>1, <1>2, <2>1 DEF OneOp, Awaited, WellFormed, Completion, OpKinds
    <2> QED
      BY <1>1, <2>1, <2>2 DEF PendingOK
  <1>4. \A o \in ring :
          /\ o \in [kind : OpKinds, id : Conns, fd : Fd]
          /\ Awaited(o) => pt[o.id].phase = o.kind /\ o.kind \in Waiting
    BY <1>1 DEF OneOp, OpsType, OpKinds, Awaited
  <1>5. \A o \in ring, i \in 1..Len(cq) : Awaited(o) /\ Awaited(cq[i]) => o.id # cq[i].id
    BY <1>1, <1>2 DEF OneOp
  <1>6. \A o, p \in ring : Awaited(o) /\ Awaited(p) /\ o.id = p.id => o = p
    BY <1>1 DEF OneOp
  <1> QED
    BY <1>3, <1>4, <1>5, <1>6, ZenonT(30) DEF Queued

(* Handling a completion takes it out of the set, and with it the only one *)
(* its connection has.                                                     *)
LEMMA QueuedHandled ==
  ASSUME IInv, NEW e, Handling(e)
  PROVE  /\ e \in Queued /\ Queued' \subseteq Queued
         /\ \A q \in Queued : q \in Queued' \/ q = e
         /\ e.id \in Conns /\ Owns(e.id, e) =>
              /\ \A o \in ring : Awaited(o) => o.id # e.id
              /\ \A q \in Queued' : Awaited(q) => q.id # e.id
              /\ \A q \in Queued' : q.kind = "accept" /\ q.res >= 0 => q.id # e.id
  <1>1. OpsType /\ OpsInv /\ QueueOK /\ cq # <<>> /\ cq' = Tail(cq) /\ e = Head(cq)
    BY DEF IInv, Tasks, OpsInv, Handling
  <1>2. /\ e = cq[1] /\ 1 \in 1..Len(cq)
        /\ \A i \in 1..Len(cq') : cq'[i] = cq[i + 1] /\ i + 1 \in 1..Len(cq)
        /\ \A i \in 1..Len(cq) : i = 1 \/ (i - 1 \in 1..Len(cq') /\ cq'[i - 1] = cq[i])
    BY <1>1, HandleQueue
  <1>3. /\ e \in Queued /\ Queued' \subseteq Queued
        /\ \A q \in Queued : q \in Queued' \/ q = e
    BY <1>2 DEF Queued
  <1>4. ASSUME e.id \in Conns, Owns(e.id, e)
        PROVE  /\ \A o \in ring : Awaited(o) => o.id # e.id
               /\ \A q \in Queued' : Awaited(q) => q.id # e.id
               /\ \A q \in Queued' : q.kind = "accept" /\ q.res >= 0 => q.id # e.id
    BY <1>1, <1>4, OwnerIsFree DEF Queued
  <1> QED
    BY <1>3, <1>4

(* The kernel adds a completion to the set.                                *)
LEMMA QueuedPosted ==
  ASSUME IInv, NEW k \in OpKinds \cup {"accept"}, NEW d \in Conns \cup {None},
         NEW r \in Int, Post(k, d, r)
  PROVE  \A q : q \in Queued' <=> q \in Queued \/ q = [kind |-> k, id |-> d, res |-> r]
  <1> DEFINE e == [kind |-> k, id |-> d, res |-> r]
  <1>1. e \in Completion
    BY DEF Completion
  <1>2. cq' = Append(cq, e) /\ cq \in Seq(Completion)
    BY DEF Post, IInv, Tasks, OpsType
  <1> HIDE DEF e
  <1>3. /\ Len(cq') = Len(cq) + 1 /\ Len(cq) \in Nat /\ cq'[Len(cq) + 1] = e
        /\ \A i \in 1..Len(cq) : cq'[i] = cq[i]
    BY <1>1, <1>2, QueueAppend, LenProperties
  <1>4. \A i : i \in 1..Len(cq') <=> i \in 1..Len(cq) \/ i = Len(cq) + 1
    BY <1>3
  <1> QED
    BY <1>3, <1>4 DEF Queued, e

-----------------------------------------------------------------------------
(* What the steps do to descriptors, tasks and cache.                      *)

\* Descriptors in use keep what they refer to.
FdsGrow == \A f \in Fd : fds[f] # Free => fds'[f] = fds[f]

\* The kernel completes operation o, with result r.
Reports(o, r) ==
  /\ o.kind \notin {"openat", "close", "evict"} /\ fds' = fds
  /\ o.kind = "statx" /\ r >= 0 /\ fds[o.fd].kind = "file" => r = Sizes[fds[o.fd].of]
Opens(o, r) ==
  /\ o.kind = "openat"
  /\ \/ ~(r >= 0) /\ fds' = fds
     \/ r \in Fd /\ fds[r] = Free /\ fds' = [fds EXCEPT ![r] = FileOf(pt[o.id].path)]
Closes(o, r) == o.kind \in {"close", "evict"} /\ fds' = [fds EXCEPT ![o.fd] = Free]

LEMMA KernelDoes ==
  ASSUME IInv, NEW o \in ring, Kernel(o)
  PROVE  /\ ServerKept
         /\ \E r \in Int : /\ Complete(o, r)
                           /\ Reports(o, r) \/ Opens(o, r) \/ Closes(o, r)
  <1>1. pt[o.id] \in Task /\ (fds[o.fd].kind = "file" => Sizes[fds[o.fd].of] \in Nat)
    BY InFlight
  <1>2. ServerKept
    BY DEF Kernel, KernelRecv, KernelOpenat, KernelStatx, KernelSend, KernelFill,
       KernelDrain, KernelClose, ServerKept
  <1>3. -1 \in Int /\ 0 \in Int /\ 1 \in Int /\ ~(-1 >= 0) /\ \A x, n : n \in 0..x => n \in Int
    OBVIOUS
  <1>4. ASSUME KernelRecv(o) PROVE \E r \in Int : Complete(o, r) /\ Reports(o, r)
    BY <1>3, <1>4 DEF KernelRecv, Reports
  <1>5. ASSUME KernelOpenat(o) PROVE \E r \in Int : Complete(o, r) /\ Opens(o, r)
    <2>1. Fd \subseteq Int
      BY DEF Fd
    <2> QED
      BY <1>3, <1>5, <2>1 DEF KernelOpenat, Opens, LowestFree, FreeFds
  <1>6. ASSUME KernelStatx(o) PROVE \E r \in Int : Complete(o, r) /\ Reports(o, r)
    BY <1>1, <1>3, <1>6 DEF KernelStatx, Reports
  <1>7. ASSUME KernelSend(o) PROVE \E r \in Int : Complete(o, r) /\ Reports(o, r)
    <2>1. pt[o.id].left \in Int
      BY <1>1 DEF Task
    <2>2. \A n \in 1..pt[o.id].left : n \in Int
      BY <2>1
    <2>3. \E r \in Int : Complete(o, r)
      BY <1>3, <1>7, <2>2, Zenon DEF KernelSend
    <2> QED
      BY <1>7, <2>3, Zenon DEF KernelSend, Reports
  <1>8. ASSUME KernelFill(o) PROVE \E r \in Int : Complete(o, r) /\ Reports(o, r)
    BY <1>3, <1>8, Zenon DEF KernelFill, Reports
  <1>9. ASSUME KernelDrain(o) PROVE \E r \in Int : Complete(o, r) /\ Reports(o, r)
    <2>1. \E r \in Int : Complete(o, r)
      BY <1>3, <1>9 DEF KernelDrain
    <2> QED
      BY <1>9, <2>1, Zenon DEF KernelDrain, Reports
  <1>10. ASSUME KernelClose(o) PROVE \E r \in Int : Complete(o, r) /\ Closes(o, r)
    BY <1>3, <1>10 DEF KernelClose, Closes
  <1> QED
    BY <1>2, <1>4, <1>5, <1>6, <1>7, <1>8, <1>9, <1>10, Zenon DEF Kernel

\* The nodes of the cache stay as they are.
NodesKept == UNCHANGED <<node, map, key, used, churned>>

\* What becomes of a task u that the completion e resumes and that waits
\* again as t: only recv changes its path, only openat what it may claim,
\* and a file is served as the cache holds it.
Onward(e, u, t) ==
  /\ t \in Task /\ t.phase \in Waiting
  /\ t.phase \in Early => u.phase \in Early
  /\ u.phase # "recv" => t.path = u.path
  /\ IF e.kind = "accept" THEN t.client = e.res /\ t.phase = "recv" /\ u.phase = "pending"
                          ELSE t.client = u.client /\ u.phase = e.kind /\ e.kind # "close"
  /\ t.phase = "statx" /\ t.file.ok => e.kind = "openat" /\ t.file.fd = e.res
  /\ t.phase \in Responds =>
       \/ u.phase \in Responds /\ t.file = u.file
       \/ Found(t) /\ t.path \in Paths /\ t.file = node[map[t.path]]

Resumes(e, t) ==
  /\ e.id \in Conns /\ Owns(e.id, e) /\ Onward(e, pt[e.id], t)
  /\ pt' = [pt EXCEPT ![e.id] = t]
  /\ ring' = ring \cup {Op(t.phase, e.id, FdOf(t.phase, t))}
  /\ NodesKept /\ FdsGrow

\* Nobody is resumed, or nobody ever will be again.
Still(e) == e.kind # "close" /\ UNCHANGED <<fds, pt, ring>> /\ NodesKept

\* The protothread of e ends.
Ends(e, t) ==
  /\ e.id \in Conns /\ Owns(e.id, e) /\ e.kind # "accept"
  /\ t \in Task /\ t.phase \notin Waiting \cup Early /\ t.path = pt[e.id].path
  /\ pt' = [pt EXCEPT ![e.id] = t]
  /\ ring' = ring /\ fds' = fds /\ NodesKept

\* The file of e enters the cache, in place of v.
Adds(e, t, v) ==
  /\ e.kind = "statx" /\ e.id \in Conns /\ Owns(e.id, e)
  /\ pt[e.id].phase = "statx" /\ pt[e.id].path \in Paths
  /\ ~Found(pt[e.id]) /\ FC!Add(pt[e.id].path, e.id, v) /\ v \in Conns \cup {None}
  /\ t \in Task /\ t.phase = "send" /\ t.path = pt[e.id].path
  /\ t.client = pt[e.id].client /\ t.file = Stated(pt[e.id], e.res).file
  /\ pt' = [pt EXCEPT ![e.id] = t]
  /\ ring' = ring \cup {Op("send", e.id, t.client)} \cup EvictOps(e.id, t, v)
  /\ node' = [node EXCEPT ![e.id] = t.file] /\ fds' = fds

\* What a handler may do, by and large.
Does(e) ==
  \/ Still(e)
  \/ \E t : Resumes(e, t)
  \/ \E t : Ends(e, t)
  \/ \E t, v : Adds(e, t, v)

(* The owner of a completion that a task waits for.                        *)
LEMMA OwnedTurn ==
  ASSUME IInv, NEW e, Handling(e), e.kind \in Waiting
  PROVE  /\ e.id \in Conns /\ Owns(e.id, e) /\ e.res \in Int /\ e.kind # "accept"
         /\ pt[e.id] \in Task /\ pt[e.id].phase = e.kind
         /\ e.kind # "recv" => pt[e.id].path \in Paths
         /\ e.kind = "openat" /\ e.res >= 0 => e.res \in Fd
         /\ OthersType
  BY AwaitedTurn DEF Turn, Handling, IInv, Waiting, Serving

(* PT_WAIT on operation k with task t is a resumption.                     *)
LEMMA Waits ==
  ASSUME IInv, NEW e, Handling(e), e.kind \in Waiting,
         NEW t \in Task, NEW k \in Waiting, NEW f,
         Await(e.id, t, k, f), f = FdOf(k, t),
         NodesKept, FdsGrow,
         Onward(e, pt[e.id], [t EXCEPT !.phase = k])
  PROVE  Does(e)
  <1> DEFINE u == [t EXCEPT !.phase = k]
  <1>1. e.id \in Conns /\ Owns(e.id, e)
    BY OwnedTurn
  <1>2. u.phase = k /\ u.client = t.client /\ u.file = t.file
    BY DEF Task
  <1>3. FdOf(u.phase, u) = f
    BY <1>2 DEF FdOf
  <1>4. pt' = [pt EXCEPT ![e.id] = u] /\ Onward(e, pt[e.id], u)
    BY DEF Await
  <1>5. ring' = ring \cup {Op(u.phase, e.id, FdOf(u.phase, u))}
    BY <1>2, <1>3 DEF Await
  <1> HIDE DEF u
  <1>6. Resumes(e, u)
    BY <1>1, <1>4, <1>5 DEF Resumes
  <1> QED
    BY <1>6 DEF Does

(* A look-up that hits starts the response, or aborts.                     *)
LEMMA HitDoes ==
  ASSUME IInv, NEW e, Handling(e), e.kind \in {"recv", "openat", "statx"},
         NEW t \in Task, t.path \in Paths, OpenHit(e.id, t), UNCHANGED fds,
         t.client = pt[e.id].client, e.kind # "recv" => t.path = pt[e.id].path
  PROVE  Does(e)
  <1>1. /\ e.kind \in Waiting /\ "send" \in Waiting /\ e.kind # "close" /\ FdsGrow
    BY DEF Waiting, FdsGrow
  <1>2. /\ pt[e.id].phase = e.kind /\ OthersType /\ e.kind # "accept"
    BY <1>1, OwnedTurn
  <1>3. Found(t)
    BY DEF OpenHit
  <1>4. CASE FC!Abort(t.path) /\ UNCHANGED <<pt, ring, node>>
    BY <1>1, <1>4 DEF Does, Still, NodesKept, FC!Abort
  <1>5. CASE FC!Get(t.path) /\ Respond(e.id, Copied(t)) /\ UNCHANGED node
    <2> DEFINE n == node[map[t.path]]
               w == Copied(t)
               x == Responding(w)
    <2>1. w \in Task /\ w.path = t.path /\ w.client = t.client
      BY <1>2, <1>3, CopiedTask
    <2>2. w.file = n
      BY DEF Copied, Task
    <2>3. x \in Task /\ x.path = w.path /\ x.client = w.client /\ x.file = w.file
      <3>1. x.file = w.file
        BY <2>1 DEF Responding, Task
      <3> HIDE DEF w
      <3> QED
        BY <2>1, <3>1, PreparedTasks
    <2>4. Await(e.id, x, "send", w.client)
      BY <1>5 DEF Respond
    <2>5. NodesKept
      BY <1>5 DEF FC!Get, FC!fcvars, NodesKept
    <2> HIDE DEF w, x, n
    <2>6. Onward(e, pt[e.id], [x EXCEPT !.phase = "send"])
      <3> DEFINE y == [x EXCEPT !.phase = "send"]
      <3>1. /\ y \in Task /\ y.phase = "send" /\ y.path = x.path /\ y.client = x.client
            /\ y.file = x.file
        BY <2>3 DEF Task, Phases, Waiting
      <3>2. "send" \notin Early /\ "send" # "statx" /\ "send" # "recv"
        BY DEF Early
      <3> HIDE DEF y
      <3>3. Onward(e, pt[e.id], y)
        BY <1>1, <1>2, <1>3, <2>1, <2>2, <2>3, <3>1, <3>2 DEF Onward, Found, n
      <3> QED
        BY <3>3 DEF y
    <2>7. w.client = FdOf("send", x)
      BY <2>3 DEF FdOf
    <2> QED
      BY <1>1, <2>3, <2>4, <2>5, <2>6, <2>7, Waits
  <1> QED
    BY <1>4, <1>5 DEF OpenHit

LEMMA AcceptDoes ==
  ASSUME IInv, NEW e, Handling(e), HandleAccept(e)
  PROVE  Does(e)
  <1>1. /\ e.kind = "accept" /\ e.kind # "close" /\ fds' = fds /\ NodesKept /\ FdsGrow
        /\ e \in Completion /\ WellFormed(e)
        /\ e.res >= 0 => pt[e.id].phase = "pending"
    <2>1. e \in Queued
      BY QueuedHandled
    <2> QED
      BY <2>1, QueueSet DEF HandleAccept, NodesKept, cache, FdsGrow
  <1>2. CASE e.res < 0
    BY <1>1, <1>2 DEF HandleAccept, Does, Still
  <1>3. CASE ~(e.res < 0)
    <2>1. e.res >= 0
      BY <1>1, <1>3 DEF Completion
    <2>2. /\ e.id \in Conns /\ e.res \in Fd /\ Owns(e.id, e) /\ pt[e.id].phase = "pending"
          /\ pt[e.id] \in Task
      BY <1>1, <2>1 DEF WellFormed, Owns, IInv, Tasks, OpsType
    <2> DEFINE t == [[pt[e.id] EXCEPT !.client = e.res] EXCEPT !.phase = "recv"]
    <2>3. t \in Task /\ t.phase = "recv" /\ t.client = e.res /\ t.path = pt[e.id].path
      BY <2>2 DEF Task, Phases, Waiting
    <2>4. /\ pt' = [pt EXCEPT ![e.id] = t]
          /\ ring' = ring \cup {Op("recv", e.id, e.res)}
      BY <1>3 DEF HandleAccept, Await
    <2> HIDE DEF t
    <2>5. Onward(e, pt[e.id], t)
      BY <1>1, <2>2, <2>3 DEF Onward, Early, Responds, Waiting
    <2>6. FdOf(t.phase, t) = e.res
      BY <2>3 DEF FdOf
    <2>7. Resumes(e, t)
      BY <1>1, <2>2, <2>3, <2>4, <2>5, <2>6 DEF Resumes
    <2> QED
      BY <2>7 DEF Does
  <1> QED
    BY <1>2, <1>3

LEMMA RecvDoes ==
  ASSUME IInv, NEW e, Handling(e), HandleRecv(e)
  PROVE  Does(e)
  <1> DEFINE c == e.id
  <1>1. /\ e.kind = "recv" /\ e.kind \in Waiting /\ fds' = fds /\ FdsGrow
        /\ "recv" \in Waiting /\ "openat" \in Waiting /\ e.kind # "accept"
        /\ (UNCHANGED <<node, cache>> => NodesKept)
    BY DEF HandleRecv, Waiting, FdsGrow, NodesKept, cache
  <1>2. /\ c \in Conns /\ Owns(c, e) /\ pt[c] \in Task /\ pt[c].phase = "recv"
        /\ buf[c] \in Received
    BY <1>1, OwnedTurn DEF OthersType
  <1>3. ASSUME NEW how \in {"dropped", "rejected", "unanswered"}, End(c, how)
        PROVE  Does(e)
    <2> DEFINE u == [pt[c] EXCEPT !.phase = how]
    <2>1. u \in Task /\ u.phase \notin Waiting \cup Early /\ u.path = pt[c].path
      BY <1>2 DEF Task, Phases, Waiting, Early
    <2>2. pt' = [pt EXCEPT ![c] = u] /\ ring' = ring /\ NodesKept
      BY <1>1, <1>3 DEF End
    <2> HIDE DEF u
    <2>3. Ends(e, u)
      BY <1>1, <1>2, <2>1, <2>2 DEF Ends
    <2> QED
      BY <2>3 DEF Does
  <1>4. CASE Await(c, pt[c], "recv", pt[c].client) /\ UNCHANGED <<node, cache>>
    <2> DEFINE y == [pt[c] EXCEPT !.phase = "recv"]
    <2>1. /\ y \in Task /\ y.phase = "recv" /\ y.client = pt[c].client
      BY <1>2 DEF Task, Phases, Waiting
    <2> HIDE DEF y
    <2>2. Onward(e, pt[c], y)
      BY <1>1, <1>2, <2>1 DEF Onward, Early, Responds
    <2>3. pt[c].client = FdOf("recv", pt[c])
      BY DEF FdOf
    <2> QED
      BY <1>1, <1>2, <1>4, <2>2, <2>3, Waits DEF y
  <1>5. ASSUME NEW g \in Garbage, Target(buf[c]) # None,
               \/ OpenHit(c, Dispatched(pt[c], buf[c], g))
               \/ /\ Await(c, Dispatched(pt[c], buf[c], g), "openat", 0)
                  /\ UNCHANGED <<node, cache>>
        PROVE  Does(e)
    <2> DEFINE t == Dispatched(pt[c], buf[c], g)
    <2>1. t \in Task /\ t.path \in Paths
      BY <1>2, <1>5, DispatchedTask
    <2>2. t.client = pt[c].client
      <3> DEFINE b == Tests(buf[c])
                 l == IF b THEN g ELSE NoFile
                 p == Target(buf[c])
      <3>1. t = [pt[c] EXCEPT !.path = p, !.test = b, !.file = l]
        BY Zenon DEF Dispatched
      <3> HIDE DEF b, l, p
      <3>2. [pt[c] EXCEPT !.path = p, !.test = b, !.file = l].client = pt[c].client
        BY <1>2 DEF Task
      <3> QED
        BY <3>1, <3>2
    <2>3. OpenHit(c, t) \/ (Await(c, t, "openat", 0) /\ UNCHANGED <<node, cache>>)
      BY <1>5
    <2> HIDE DEF t
    <2>4. CASE OpenHit(c, t)
      BY <1>1, <2>1, <2>2, <2>4, HitDoes
    <2>5. CASE Await(c, t, "openat", 0) /\ UNCHANGED <<node, cache>>
      <3> DEFINE y == [t EXCEPT !.phase = "openat"]
      <3>1. /\ y \in Task /\ y.phase = "openat" /\ y.client = t.client
        BY <2>1 DEF Task, Phases, Waiting
      <3> HIDE DEF y
      <3>2. Onward(e, pt[c], y)
        BY <1>1, <1>2, <2>2, <3>1 DEF Onward, Early, Responds
      <3>3. 0 = FdOf("openat", t)
        BY DEF FdOf
      <3> QED
        BY <1>1, <1>2, <2>1, <2>5, <3>2, <3>3, Waits DEF y
    <2> QED
      BY <2>3, <2>4, <2>5
  <1> QED
    BY <1>3, <1>4, <1>5 DEF HandleRecv

(* What the results of openat and statx do to a task.                      *)
LEMMA ResultTasks ==
  ASSUME NEW t \in Task, NEW r \in Int
  PROVE  /\ (r >= 0 => r \in Fd) => Opened(t, r).client = t.client
         /\ (r >= 0 => r \in Fd) /\ Opened(t, r).file.ok => Opened(t, r).file.fd = r
         /\ Stated(t, r).file.fd = t.file.fd
         /\ Stated(t, r).file.ok => t.file.ok /\ Stated(t, r).file.size = r /\ r >= 0
  <1>1. CASE r < 0
    <2>1. /\ ~[t EXCEPT !.file.ok = FALSE].file.ok
          /\ [t EXCEPT !.file.ok = FALSE].file.fd = t.file.fd
          /\ [t EXCEPT !.file.ok = FALSE].client = t.client
      BY DEF Task, File
    <2> QED
      BY <1>1, <2>1, Zenon DEF Opened, Stated
  <1>2. CASE ~(r < 0)
    <2>1. r >= 0
      BY <1>2
    <2>2. /\ [t EXCEPT !.file.fd = r].file.fd = r
          /\ [t EXCEPT !.file.fd = r].client = t.client
          /\ [t EXCEPT !.file.size = r].file.fd = t.file.fd
          /\ [t EXCEPT !.file.size = r].file.size = r
          /\ [t EXCEPT !.file.size = r].file.ok = t.file.ok
      BY DEF Task, File
    <2> QED
      BY <1>2, <2>1, <2>2, Zenon DEF Opened, Stated
  <1> QED
    BY <1>1, <1>2

LEMMA OpenatDoes ==
  ASSUME IInv, NEW e, Handling(e), HandleOpenat(e)
  PROVE  Does(e)
  <1> DEFINE c == e.id
             t == Opened(pt[c], e.res)
  <1>1. /\ e.kind = "openat" /\ e.kind \in Waiting /\ fds' = fds /\ FdsGrow
        /\ "statx" \in Waiting
        /\ (UNCHANGED <<node, cache>> => NodesKept)
    BY DEF HandleOpenat, Waiting, FdsGrow, NodesKept, cache
  <1>2. /\ c \in Conns /\ Owns(c, e) /\ pt[c] \in Task /\ pt[c].phase = "openat"
        /\ pt[c].path \in Paths /\ e.res \in Int /\ (e.res >= 0 => e.res \in Fd)
    BY <1>1, OwnedTurn
  <1>3. /\ t \in Task /\ t.path = pt[c].path /\ t.client = pt[c].client
        /\ t.file.ok => t.file.fd = e.res
    BY <1>2, OpenedTasks, ResultTasks, SMTT(30)
  <1> HIDE DEF t
  <1>4. CASE OpenHit(c, t)
    BY <1>1, <1>2, <1>3, <1>4, HitDoes
  <1>5. CASE Await(c, t, "statx", t.file.fd) /\ UNCHANGED <<node, cache>>
    <2> DEFINE y == [t EXCEPT !.phase = "statx"]
    <2>1. /\ y \in Task /\ y.phase = "statx" /\ y.client = t.client /\ y.path = t.path
          /\ y.file = t.file
      BY <1>3 DEF Task, Phases, Waiting
    <2> HIDE DEF y
    <2>2. Onward(e, pt[c], y)
      BY <1>1, <1>2, <1>3, <2>1 DEF Onward, Early, Responds
    <2>3. t.file.fd = FdOf("statx", t)
      BY DEF FdOf
    <2> QED
      BY <1>1, <1>2, <1>3, <1>5, <2>2, <2>3, Waits DEF y
  <1> QED
    BY <1>4, <1>5 DEF HandleOpenat, t

LEMMA StatxDoes ==
  ASSUME IInv, NEW e, Handling(e), HandleStatx(e)
  PROVE  Does(e)
  <1> DEFINE c == e.id
             t == Stated(pt[c], e.res)
  <1>1. /\ e.kind = "statx" /\ e.kind \in Waiting /\ fds' = fds
    BY DEF HandleStatx, Waiting
  <1>2. /\ c \in Conns /\ Owns(c, e) /\ pt[c] \in Task /\ pt[c].phase = "statx"
        /\ pt[c].path \in Paths /\ e.res \in Int
    BY <1>1, OwnedTurn
  <1>3. /\ t \in Task /\ t.path = pt[c].path /\ t.client = pt[c].client
    BY <1>2, OpenedTasks
  <1> DEFINE k == t.file
  <1>4. t.file = k
    OBVIOUS
  <1> HIDE DEF t, k
  <1>5. CASE OpenHit(c, t)
    BY <1>1, <1>2, <1>3, <1>5, HitDoes
  <1>6. ASSUME NEW v \in Conns \cup {None}, FC!Add(t.path, c, v), ~Found(t),
               pt' = [pt EXCEPT ![c] = [Responding(t) EXCEPT !.phase = "send"]],
               ring' = ring \cup {Op("send", c, t.client)} \cup EvictOps(c, t, v),
               node' = [node EXCEPT ![c] = t.file]
        PROVE  Does(e)
    <2> DEFINE x == Responding(t)
               y == [x EXCEPT !.phase = "send"]
    <2>1. x \in Task /\ x.path = t.path /\ x.client = t.client /\ x.file = t.file
      <3>1. x.file = t.file
        BY <1>3 DEF Responding, Task
      <3> QED
        BY <1>3, <3>1, PreparedTasks
    <2> HIDE DEF x
    <2>2. /\ y \in Task /\ y.phase = "send" /\ y.client = t.client /\ y.path = t.path
          /\ y.file = t.file
      BY <2>1 DEF Task, Phases, Waiting
    <2>3. pt' = [pt EXCEPT ![c] = y]
      BY <1>6 DEF x
    <2> HIDE DEF y
    <2>4. ~Found(pt[c]) /\ EvictOps(c, y, v) = EvictOps(c, t, v)
      BY <1>3, <1>6 DEF Found, EvictOps
    <2>5. y.file = Stated(pt[c], e.res).file
      BY <2>2 DEF t
    <2>6. Adds(e, y, v)
      BY <1>1, <1>2, <1>3, <1>6, <2>2, <2>3, <2>4, <2>5 DEF Adds
    <2> QED
      BY <2>6 DEF Does
  <1> QED
    BY <1>1, <1>5, <1>6, Zenon DEF HandleStatx, t

(* A task that is past its header keeps its file, path and client.         *)
LEMMA Later ==
  ASSUME IInv, NEW e, Handling(e), e.kind \in Responds,
         NEW t \in Task, NEW k \in {"send", "fill", "drain", "close"}, NEW f,
         t.path = pt[e.id].path, t.client = pt[e.id].client, t.file = pt[e.id].file,
         Await(e.id, t, k, f), f = FdOf(k, t), NodesKept, FdsGrow
  PROVE  Does(e)
  <1> DEFINE y == [t EXCEPT !.phase = k]
  <1>1. e.kind \in Waiting /\ k \in Waiting /\ e.kind \notin {"close", "accept"}
    BY DEF Responds, Waiting
  <1>2. pt[e.id].phase = e.kind
    BY <1>1, OwnedTurn
  <1>3. /\ y \in Task /\ y.phase = k /\ y.client = t.client /\ y.path = t.path
        /\ y.file = t.file
    BY DEF Task, Phases, Waiting
  <1>4. k \notin Early /\ k # "statx"
    BY DEF Early
  <1> HIDE DEF y
  <1>5. Onward(e, pt[e.id], y)
    BY <1>1, <1>2, <1>3, <1>4 DEF Onward
  <1> QED
    BY <1>1, <1>5, Waits DEF y

(* The route /test ends the process.                                       *)
LEMMA CrashDoes ==
  ASSUME NEW e, e.kind # "close", NEW t, Crash(t), UNCHANGED <<fds, ring, pt, node>>
  PROVE  Does(e)
  BY DEF Crash, Does, Still, NodesKept

(* async_io_sendfile takes descriptors that are free.                      *)
LEMMA SendfileDoes ==
  ASSUME IInv, NEW e, Handling(e), e.kind = "send", NEW t \in Task,
         t.path = pt[e.id].path, t.client = pt[e.id].client, t.file = pt[e.id].file,
         AfterHeader(e.id, t), UNCHANGED node
  PROVE  Does(e)
  <1>1. CASE Crash(t) /\ UNCHANGED <<fds, pt, ring>>
    BY <1>1, CrashDoes
  <1>2. CASE StartSendfile(e.id, t) /\ UNCHANGED cache
    <2>1. FdsGrow /\ NodesKept
      BY <1>2 DEF StartSendfile, FdsGrow, FreeFds, NodesKept, cache, IInv, OthersType
    <2>2. ASSUME NEW b \in BOOLEAN, Await(e.id, Spliced(t, b), "fill", t.file.fd)
          PROVE  Does(e)
      <3> DEFINE x == Spliced(t, b)
      <3>1. x \in Task /\ x.path = t.path /\ x.file = t.file
        BY PreparedTasks
      <3>2. x.client = t.client
        <4> DEFINE n == t.file.size % Modulus
                   y == t.clean /\ b
                   z == 0
        <4>1. x = [t EXCEPT !.left = z, !.nbytes = n, !.in_pipe = z, !.piped = b, !.clean = y]
          BY Zenon DEF Spliced
        <4> HIDE DEF x, n, y, z
        <4>2. [t EXCEPT !.left = z, !.nbytes = n, !.in_pipe = z, !.piped = b, !.clean = y].client
                = t.client
          BY DEF Task
        <4> QED
          BY <4>1, <4>2
      <3>3. t.file.fd = FdOf("fill", x) /\ e.kind \in Responds
        BY <3>1 DEF FdOf, Responds
      <3> HIDE DEF x
      <3>4. Await(e.id, x, "fill", t.file.fd)
        BY <2>2 DEF x
      <3> QED
        BY <2>1, <3>1, <3>2, <3>3, <3>4, Later
    <2> QED
      BY <1>2, <2>2 DEF StartSendfile
  <1> QED
    BY <1>1, <1>2 DEF AfterHeader

LEMMA SendDoes ==
  ASSUME IInv, NEW e, Handling(e), HandleSend(e)
  PROVE  Does(e)
  <1> DEFINE c == e.id
  <1>1. /\ e.kind = "send" /\ e.kind \in Waiting /\ e.kind \in Responds /\ node' = node
    BY DEF HandleSend, Waiting, Responds
  <1>2. /\ c \in Conns /\ pt[c] \in Task /\ e.res \in Int
    BY <1>1, OwnedTurn
  <1>3. CASE AfterHeader(c, [pt[c] EXCEPT !.clean = FALSE])
    <2> DEFINE t == [pt[c] EXCEPT !.clean = FALSE]
    <2>1. /\ t \in Task /\ t.path = pt[c].path /\ t.client = pt[c].client
          /\ t.file = pt[c].file
      BY <1>2 DEF Task
    <2> HIDE DEF t
    <2> QED
      BY <1>1, <1>3, <2>1, SendfileDoes DEF t
  <1>4. CASE AfterHeader(c, pt[c])
    BY <1>1, <1>2, <1>4, SendfileDoes
  <1>5. CASE /\ Await(c, [pt[c] EXCEPT !.left = @ - e.res], "send", pt[c].client)
             /\ UNCHANGED <<fds, cache>>
    <2> DEFINE n == pt[c].left - e.res
               t == [pt[c] EXCEPT !.left = n]
    <2>1. n \in Int
      BY <1>2 DEF Task
    <2> HIDE DEF n
    <2>2. /\ t \in Task /\ t.path = pt[c].path /\ t.client = pt[c].client
          /\ t.file = pt[c].file
      BY <1>2, <2>1 DEF Task
    <2>3. Await(c, t, "send", pt[c].client)
      BY <1>5 DEF n
    <2> HIDE DEF t
    <2>4. pt[c].client = FdOf("send", t) /\ NodesKept /\ FdsGrow
      BY <1>1, <1>5, <2>2 DEF FdOf, NodesKept, FdsGrow, cache
    <2> QED
      BY <1>1, <2>2, <2>3, <2>4, Later
  <1> QED
    BY <1>3, <1>4, <1>5 DEF HandleSend

(* What is left of an ended protothread remembers its path.                *)
LEMMA EndedPath ==
  ASSUME NEW t \in Task, NEW how \in {"closed", "kept"}
  PROVE  /\ Ended(t, how) \in Task /\ Ended(t, how).path = t.path
         /\ Ended(t, how).phase \notin Waiting \cup Early
  <1>1. Ended(t, how) \in Task
    BY EndedTask
  <1>2. 0 \in Fd
    BY ServerAssumption DEF Fd
  <1>3. NoTask \in Task
    BY <1>2 DEF NoTask, NoFile, File, Task, Phases
  <1>4. Ended(t, how) = [NoTask EXCEPT !.phase = how, !.path = t.path,
                                       !.test = t.test, !.clean = t.clean]
    BY DEF Ended
  <1>5. how \notin Waiting \cup Early
    BY DEF Waiting, Early
  <1> QED
    BY <1>1, <1>3, <1>4, <1>5 DEF Task

LEMMA AfterBodyDoes ==
  ASSUME IInv, NEW e, Handling(e), e.kind \in {"fill", "drain"}, NEW t \in Task,
         t.path = pt[e.id].path, t.client = pt[e.id].client, t.file = pt[e.id].file,
         AfterBody(e.id, t), UNCHANGED <<fds, node>>
  PROVE  Does(e)
  <1>1. /\ e.kind \in Responds /\ e.kind \in Waiting /\ FdsGrow /\ e.kind # "close"
        /\ (UNCHANGED cache => NodesKept)
    BY DEF Responds, Waiting, FdsGrow, NodesKept, cache
  <1>2. CASE Crash(t) /\ UNCHANGED <<pt, ring>>
    BY <1>1, <1>2, CrashDoes
  <1>3. CASE Await(e.id, t, "close", t.client) /\ UNCHANGED cache
    <2>1. t.client = FdOf("close", t)
      BY DEF FdOf
    <2> QED
      BY <1>1, <1>3, <2>1, Later
  <1>4. CASE pt' = [pt EXCEPT ![e.id] = Ended(t, "kept")] /\ UNCHANGED <<ring, cache>>
    <2> DEFINE u == Ended(t, "kept")
    <2>1. u \in Task /\ u.path = t.path /\ u.phase \notin Waiting \cup Early
      BY EndedPath
    <2>2. pt' = [pt EXCEPT ![e.id] = u]
      BY <1>4
    <2> HIDE DEF u
    <2>3. Ends(e, u)
      BY <1>1, <1>4, <2>1, <2>2, OwnedTurn DEF Ends
    <2> QED
      BY <2>3 DEF Does
  <1> QED
    BY <1>2, <1>3, <1>4 DEF AfterBody

LEMMA SpliceFailedDoes ==
  ASSUME IInv, NEW e, Handling(e), e.kind \in {"fill", "drain"},
         SpliceFailed(e.id), UNCHANGED <<fds, node>>
  PROVE  Does(e)
  <1> DEFINE t == [pt[e.id] EXCEPT !.clean = FALSE]
  <1>1. pt[e.id] \in Task
    BY OwnedTurn DEF Waiting
  <1>2. /\ t \in Task /\ t.path = pt[e.id].path /\ t.client = pt[e.id].client
        /\ t.file = pt[e.id].file
    BY <1>1 DEF Task
  <1>3. AfterBody(e.id, t)
    BY DEF SpliceFailed
  <1> HIDE DEF t
  <1> QED
    BY <1>2, <1>3, AfterBodyDoes

LEMMA FillDoes ==
  ASSUME IInv, NEW e, Handling(e), HandleFill(e)
  PROVE  Does(e)
  <1> DEFINE c == e.id
  <1>1. /\ e.kind = "fill" /\ e.kind \in Waiting /\ e.kind \in Responds
        /\ UNCHANGED <<fds, node>> /\ FdsGrow /\ (UNCHANGED cache => NodesKept)
    BY DEF HandleFill, Waiting, Responds, FdsGrow, NodesKept, cache
  <1>2. pt[c] \in Task /\ e.res \in Int
    BY <1>1, OwnedTurn
  <1>3. CASE SpliceFailed(c)
    BY <1>1, <1>3, SpliceFailedDoes
  <1>4. CASE Await(c, Filled(pt[c], e.res), "drain", pt[c].client) /\ UNCHANGED cache
    <2> DEFINE n == (pt[c].nbytes - e.res) % Modulus
               m == pt[c].in_pipe + e.res
               t == [pt[c] EXCEPT !.nbytes = n, !.in_pipe = m]
    <2>1. n \in Int /\ m \in Int
      <3>1. Modulus \in Nat /\ Modulus > 0
        BY ServerAssumption
      <3> QED
        BY <1>2, <3>1 DEF Task
    <2> HIDE DEF n, m
    <2>2. /\ t \in Task /\ t.path = pt[c].path /\ t.client = pt[c].client
          /\ t.file = pt[c].file
      BY <1>2, <2>1 DEF Task
    <2>3. Await(c, t, "drain", pt[c].client)
      BY <1>4 DEF n, m, Filled
    <2> HIDE DEF t
    <2>4. pt[c].client = FdOf("drain", t)
      BY <2>2 DEF FdOf
    <2> QED
      BY <1>1, <1>4, <2>2, <2>3, <2>4, Later
  <1> QED
    BY <1>3, <1>4 DEF HandleFill

LEMMA DrainDoes ==
  ASSUME IInv, NEW e, Handling(e), HandleDrain(e)
  PROVE  Does(e)
  <1> DEFINE c == e.id
             n == pt[c].in_pipe - e.res
             t == [pt[c] EXCEPT !.in_pipe = n]
  <1>1. /\ e.kind = "drain" /\ e.kind \in Waiting /\ e.kind \in Responds
        /\ UNCHANGED <<fds, node>> /\ FdsGrow /\ (UNCHANGED cache => NodesKept)
    BY DEF HandleDrain, Waiting, Responds, FdsGrow, NodesKept, cache
  <1>2. pt[c] \in Task /\ e.res \in Int
    BY <1>1, OwnedTurn
  <1>3. n \in Int
    BY <1>2 DEF Task
  <1>4. \/ SpliceFailed(c)
        \/ AfterBody(c, t)
        \/ Await(c, t, "fill", t.file.fd) /\ UNCHANGED cache
    BY DEF HandleDrain
  <1> HIDE DEF n
  <1>5. /\ t \in Task /\ t.path = pt[c].path /\ t.client = pt[c].client
        /\ t.file = pt[c].file
    BY <1>2, <1>3 DEF Task
  <1> HIDE DEF t
  <1>6. CASE SpliceFailed(c)
    BY <1>1, <1>6, SpliceFailedDoes
  <1>7. CASE AfterBody(c, t)
    BY <1>1, <1>5, <1>7, AfterBodyDoes
  <1>8. CASE Await(c, t, "fill", t.file.fd) /\ UNCHANGED cache
    <2>1. t.file.fd = FdOf("fill", t)
      BY DEF FdOf
    <2> QED
      BY <1>1, <1>5, <1>8, <2>1, Later
  <1> QED
    BY <1>4, <1>6, <1>7, <1>8

LEMMA CloseDoes ==
  ASSUME IInv, NEW e, Handling(e), HandleClose(e)
  PROVE  Does(e)
  <1> DEFINE c == e.id
             t == Ended(pt[c], "closed")
  <1>1. /\ e.kind = "close" /\ e.kind \in Waiting /\ UNCHANGED <<fds, ring>>
        /\ NodesKept /\ pt' = [pt EXCEPT ![c] = t]
    BY DEF HandleClose, Waiting, NodesKept, cache
  <1>2. c \in Conns /\ Owns(c, e) /\ pt[c] \in Task
    BY <1>1, OwnedTurn
  <1>3. t \in Task /\ t.path = pt[c].path /\ t.phase \notin Waiting \cup Early
    BY <1>2, EndedPath
  <1> HIDE DEF t
  <1>4. Ends(e, t)
    BY <1>1, <1>2, <1>3 DEF Ends
  <1> QED
    BY <1>4 DEF Does

(* One turn of the event loop does one of these things.                    *)
LEMMA HandleDoes ==
  ASSUME IInv, ~aborted, Handle
  PROVE  Handling(Head(cq)) /\ Does(Head(cq))
  <1> DEFINE e == Head(cq)
  <1>1. Handling(e)
    BY DEF Handle, Handling
  <1>2. HandleEvict(e) => Does(e)
    BY DEF HandleEvict, Does, Still, NodesKept, cache
  <1> QED
    BY <1>1, <1>2, AcceptDoes, RecvDoes, OpenatDoes, StatxDoes, SendDoes, FillDoes,
       DrainDoes, CloseDoes DEF Handle

-----------------------------------------------------------------------------
(* The cache's nodes, whatever fails and whatever is evicted.              *)

LEMMA CInvAccept ==
  ASSUME IInv, CInv, NEW c \in Conns, KernelAccept(c)
  PROVE  CInv'
  <1>1. /\ UNCHANGED <<ring, node>> /\ NodesKept /\ pt[c].phase = "none"
        /\ pt' = [pt EXCEPT ![c].phase = "pending"] /\ pt \in [Conns -> Task]
        /\ ring \subseteq [kind : OpKinds, id : Conns, fd : Fd]
    BY DEF KernelAccept, NodesKept, cache, IInv, Tasks, OpsType
  <1>2. /\ \A d \in Conns : d # c => pt'[d] = pt[d]
        /\ pt'[c].phase = "pending" /\ pt'[c].path = pt[c].path
    BY <1>1 DEF Task
  <1>3. \A o \in ring : o.kind # "evict" => o.id # c
    BY <1>1, QueueSet DEF Awaited, OpKinds, Waiting
  <1>4. RingFds'
    BY <1>1, <1>2, <1>3 DEF CInv, RingFds
  <1>5. Evicts' /\ EarlyFresh'
    BY <1>1, <1>2 DEF CInv, Evicts, EarlyFresh, NodesKept, Early
  <1>6. MapKey' /\ KeyPath'
    BY <1>1, <1>2 DEF CInv, MapKey, KeyPath, NodesKept
  <1> QED
    BY <1>4, <1>5, <1>6 DEF CInv

(* Operations completed or failed: the ring shrinks.                       *)
LEMMA CInvShrinks ==
  ASSUME CInv, ring' \subseteq ring, pt' = pt, NodesKept
  PROVE  CInv'
  BY DEF CInv, RingFds, Evicts, EarlyFresh, MapKey, KeyPath, NodesKept

LEMMA CInvResumes ==
  ASSUME IInv, CInv, NEW e, Handling(e), NEW t, Resumes(e, t)
  PROVE  CInv'
  <1> DEFINE c == e.id
             q == Op(t.phase, c, FdOf(t.phase, t))
  <1>1. /\ c \in Conns /\ NodesKept /\ ring' = ring \cup {q}
        /\ pt' = [pt EXCEPT ![c] = t] /\ pt \in [Conns -> Task]
        /\ ring \subseteq [kind : OpKinds, id : Conns, fd : Fd]
        /\ t.phase \in Early => pt[c].phase \in Early
        /\ pt[c].phase # "recv" => t.path = pt[c].path
    BY DEF Resumes, Onward, IInv, Tasks, OpsType
  <1>2. /\ \A d \in Conns : d # c => pt'[d] = pt[d]
        /\ pt'[c] = t
    BY <1>1
  <1>3. \A o \in ring : o.kind # "evict" => o.id # c
    BY <1>1, QueuedHandled DEF Awaited, OpKinds, Waiting, Resumes
  <1>4. q.kind = t.phase /\ q.id = c /\ q.fd = FdOf(t.phase, t) /\ q.kind # "evict"
    BY DEF Op, Resumes, Onward, Waiting
  <1> HIDE DEF q, c
  <1>5. RingFds'
    BY <1>1, <1>2, <1>3, <1>4 DEF CInv, RingFds
  <1>6. Evicts' /\ EarlyFresh'
    BY <1>1, <1>2, <1>4 DEF CInv, Evicts, EarlyFresh, NodesKept
  <1>7. MapKey' /\ KeyPath'
    BY <1>1, <1>2 DEF CInv, MapKey, KeyPath, EarlyFresh, NodesKept, Early
  <1> QED
    BY <1>5, <1>6, <1>7 DEF CInv

LEMMA CInvEnds ==
  ASSUME IInv, CInv, NEW e, Handling(e), NEW t, Ends(e, t)
  PROVE  CInv'
  <1> DEFINE c == e.id
  <1>1. /\ c \in Conns /\ NodesKept /\ ring' = ring
        /\ pt' = [pt EXCEPT ![c] = t] /\ pt \in [Conns -> Task]
        /\ ring \subseteq [kind : OpKinds, id : Conns, fd : Fd]
        /\ t.phase \notin Early /\ t.path = pt[c].path
    BY DEF Ends, IInv, Tasks, OpsType
  <1>2. /\ \A d \in Conns : d # c => pt'[d] = pt[d]
        /\ pt'[c] = t
    BY <1>1
  <1>3. \A o \in ring : o.kind # "evict" => o.id # c
    BY <1>1, QueuedHandled DEF Awaited, OpKinds, Waiting, Ends
  <1> HIDE DEF c
  <1>4. RingFds'
    BY <1>1, <1>2, <1>3 DEF CInv, RingFds
  <1>5. Evicts' /\ EarlyFresh'
    BY <1>1, <1>2 DEF CInv, Evicts, EarlyFresh, NodesKept
  <1>6. MapKey' /\ KeyPath'
    BY <1>1, <1>2 DEF CInv, MapKey, KeyPath, NodesKept
  <1> QED
    BY <1>4, <1>5, <1>6 DEF CInv

(* LRU_cache_add: the node c takes the path, the node v gives its own up.  *)
LEMMA AddFacts ==
  ASSUME IInv, CInv, NEW e, Handling(e), NEW t, NEW v, Adds(e, t, v)
  PROVE  LET c == e.id
             p == pt[c].path
         IN /\ c \in Conns /\ p \in Paths /\ key[c] = None /\ node[c] = NoFile
            /\ v # c /\ v \in Conns \cup {None} /\ (v # None => key[v] # None)
            /\ map[p] = None
            /\ \A d \in Conns : d # c => pt'[d] = pt[d] /\ node'[d] = node[d]
            /\ pt'[c] = t /\ node'[c] = t.file
            /\ t.phase = "send" /\ t.path = p /\ t.client = pt[c].client
            /\ key'[c] = p
            /\ \A d \in Conns : d # c => key'[d] = IF d = v THEN None ELSE key[d]
            /\ \A r \in Paths : map'[r] # None =>
                 \/ r = p /\ map'[r] = c
                 \/ map'[r] = map[r] /\ (v # None => r # key[v])
            /\ churned' = (churned \/ v # None)
            /\ ring' = ring \cup {Op("send", c, t.client)} \cup EvictOps(c, t, v)
            /\ EvictOps(c, t, v) = {Op("evict", n, node[n].fd) : n \in {v} \ {None}}
            /\ fds' = fds
  <1> DEFINE c == e.id
             p == pt[c].path
  <1>1. /\ c \in Conns /\ p \in Paths /\ ~Found(pt[c]) /\ FC!Add(p, c, v)
        /\ pt[c].phase = "statx" /\ v \in Conns \cup {None}
        /\ pt \in [Conns -> Task] /\ node \in [Conns -> File] /\ FC!TypeOK
        /\ pt' = [pt EXCEPT ![c] = t] /\ node' = [node EXCEPT ![c] = t.file]
        /\ t.phase = "send" /\ t.path = p /\ t.client = pt[c].client
        /\ ring' = ring \cup {Op("send", c, t.client)} \cup EvictOps(c, t, v)
        /\ fds' = fds
    BY DEF Adds, IInv, Tasks, OpsType, OthersType
  <1>2. None \notin Conns /\ None \notin Paths
    BY ServerAssumption
  <1> HIDE DEF c, p
  <1>3. key[c] = None /\ node[c] = NoFile
    BY <1>1 DEF CInv, EarlyFresh, Early
  <1>4. v \in FC!Resident \/ v = None
    BY <1>1 DEF FC!Add
  <1>5. v # c /\ (v # None => key[v] # None)
    BY <1>1, <1>2, <1>3, <1>4 DEF FC!Resident
  <1>6. map[p] = None
    BY <1>1 DEF Found, FC!Hit, p
  <1>7. key' = [m \in Conns |-> IF m = c THEN p ELSE IF m = v THEN None ELSE key[m]]
        /\ churned' = (churned \/ v # None)
    BY <1>1 DEF FC!Add
  <1>8. \A r \in Paths : map'[r] # None =>
          \/ r = p /\ map'[r] = c
          \/ map'[r] = map[r] /\ (v # None => r # key[v])
    <2>1. FC!Without(v) \in [Paths -> Conns \cup {None}]
      BY <1>1 DEF FC!Without, FC!TypeOK
    <2>2. \A r \in Paths : FC!Without(v)[r] # None =>
            FC!Without(v)[r] = map[r] /\ (v # None => r # key[v])
      BY <1>1, <1>4 DEF FC!Without, FC!TypeOK
    <2>3. map' = FC!Without(v) \/ map' = [FC!Without(v) EXCEPT ![p] = c]
      BY <1>1 DEF FC!Add
    <2> QED
      BY <1>1, <2>1, <2>2, <2>3
  <1>9. EvictOps(c, t, v) = {Op("evict", n, node[n].fd) : n \in {v} \ {None}}
    BY DEF EvictOps
  <1>10. /\ \A d \in Conns : d # c => pt'[d] = pt[d] /\ node'[d] = node[d]
         /\ pt'[c] = t /\ node'[c] = t.file
         /\ key'[c] = p
         /\ \A d \in Conns : d # c => key'[d] = IF d = v THEN None ELSE key[d]
    BY <1>1, <1>7
  <1> QED
    BY <1>1, <1>3, <1>5, <1>6, <1>7, <1>8, <1>9, <1>10 DEF c, p

LEMMA CInvAdds ==
  ASSUME IInv, CInv, NEW e, Handling(e), NEW t, NEW v, Adds(e, t, v)
  PROVE  CInv'
  <1> DEFINE c == e.id
             p == pt[c].path
             q == Op("send", c, t.client)
             E == EvictOps(c, t, v)
  <1>1. /\ c \in Conns /\ p \in Paths /\ key[c] = None /\ node[c] = NoFile
        /\ v # c /\ v \in Conns \cup {None} /\ (v # None => key[v] # None)
        /\ \A d \in Conns : d # c => pt'[d] = pt[d] /\ node'[d] = node[d]
        /\ pt'[c] = t /\ t.phase = "send" /\ t.path = p
        /\ key'[c] = p
        /\ \A d \in Conns : d # c => key'[d] = IF d = v THEN None ELSE key[d]
        /\ \A r \in Paths : map'[r] # None =>
             \/ r = p /\ map'[r] = c
             \/ map'[r] = map[r] /\ (v # None => r # key[v])
        /\ churned' = (churned \/ v # None)
        /\ ring' = ring \cup {q} \cup E
        /\ E = {Op("evict", n, node[n].fd) : n \in {v} \ {None}}
    BY AddFacts
  <1>2. None \notin Conns /\ None \notin Paths /\ FC!TypeOK
    BY ServerAssumption DEF IInv, OthersType
  <1>3. \A o \in ring : o.kind # "evict" => o.id # c
    BY <1>1, QueuedHandled, ZenonT(30) DEF Awaited, OpKinds, Waiting, Adds, IInv, Tasks, OpsType
  <1>4. ring \subseteq [kind : OpKinds, id : Conns, fd : Fd]
    BY DEF IInv, Tasks, OpsType
  <1>5. q.kind = "send" /\ q.id = c /\ q.fd = t.client
    BY DEF Op
  <1>6. \A o \in E : /\ o.kind = "evict" /\ o.id = v /\ v # None /\ v \in Conns
                     /\ o.fd = node[v].fd
    BY <1>1 DEF Op
  <1>7. "send" \notin Early /\ "statx" \in Early /\ pt[c].phase = "statx"
    BY DEF Early, Adds
  <1> HIDE DEF c, p, q, E
  <1>8. RingFds'
    BY <1>1, <1>3, <1>4, <1>5, <1>6 DEF CInv, RingFds, FdOf
  <1>9. Evicts'
    <2>1. ASSUME NEW o \in ring, o.kind = "evict"
          PROVE  /\ churned' /\ o.fd = node'[o.id].fd
                 /\ key'[o.id] = None /\ pt'[o.id].phase \notin Early
      <3>1. /\ churned /\ o.fd = node[o.id].fd /\ o.id \in Conns
            /\ key[o.id] = None /\ pt[o.id].phase \notin Early
        BY <1>4, <2>1 DEF CInv, Evicts
      <3>2. o.id # c
        BY <1>7, <3>1
      <3> QED
        BY <1>1, <3>1, <3>2
    <2>2. ASSUME NEW o \in E
          PROVE  /\ churned' /\ o.fd = node'[o.id].fd
                 /\ key'[o.id] = None /\ pt'[o.id].phase \notin Early
      <3>1. o.id = v /\ v \in Conns /\ v # None /\ o.fd = node[v].fd
        BY <1>6
      <3>2. pt[v].phase \notin Early
        BY <1>1, <3>1 DEF CInv, EarlyFresh
      <3> QED
        BY <1>1, <3>1, <3>2
    <2> QED
      BY <1>1, <1>5, <2>1, <2>2 DEF Evicts
  <1>10. MapKey'
    <2>1. ASSUME NEW r \in Paths, map'[r] # None PROVE key'[map'[r]] = r
      <3>1. CASE r = p /\ map'[r] = c
        BY <1>1, <3>1
      <3>2. CASE map'[r] = map[r] /\ (v # None => r # key[v])
        <4>1. map[r] \in Conns /\ key[map[r]] = r
          BY <1>2, <2>1, <3>2 DEF CInv, MapKey, FC!TypeOK
        <4>2. map[r] # c /\ map[r] # v
          BY <1>1, <1>2, <3>2, <4>1
        <4> QED
          BY <1>1, <3>2, <4>1, <4>2
      <3> QED
        BY <1>1, <2>1, <3>1, <3>2
    <2> QED
      BY <2>1 DEF MapKey
  <1>11. EarlyFresh'
    BY <1>1, <1>7 DEF CInv, EarlyFresh
  <1>12. KeyPath'
    BY <1>1 DEF CInv, KeyPath
  <1> QED
    BY <1>8, <1>9, <1>10, <1>11, <1>12 DEF CInv

LEMMA CInvDoes ==
  ASSUME IInv, CInv, NEW e, Handling(e), Does(e)
  PROVE  CInv'
  <1>1. CASE Still(e)
    BY <1>1, CInvShrinks DEF Still
  <1> QED
    BY <1>1, CInvResumes, CInvEnds, CInvAdds DEF Does

LEMMA CInvStep ==
  ASSUME IInv, CInv, [Next]_vars
  PROVE  CInv'
  <1>1. CASE UNCHANGED vars
    <2>1. UNCHANGED <<ring, pt>> /\ NodesKept
      BY <1>1 DEF vars, kernel, cache, NodesKept
    <2> QED
      BY <2>1, CInvShrinks
  <1>2. ASSUME NEW o \in ring, Kernel(o) PROVE CInv'
    <2>1. ring' \subseteq ring /\ pt' = pt /\ NodesKept
      BY <1>2, KernelDoes DEF Complete, ServerKept, NodesKept, cache
    <2> QED
      BY <2>1, CInvShrinks
  <1>3. CASE KernelAcceptFails
    BY <1>3, CInvShrinks DEF KernelAcceptFails, NodesKept, cache
  <1>4. CASE Step
    BY <1>2, <1>3, <1>4, CInvAccept, HandleDoes, CInvDoes DEF Step
  <1> QED
    BY <1>1, <1>4 DEF Next, Rest

LEMMA InitCInv == Init => CInv
  <1> SUFFICES ASSUME Init PROVE CInv
    OBVIOUS
  <1> QED
    BY DEF Init, FC!Init, CInv, RingFds, Evicts, MapKey, EarlyFresh, KeyPath

-----------------------------------------------------------------------------
(* Who owns a descriptor.                                                  *)

LEMMA DescDistinct ==
  /\ \A c : ClientOf(c) # Free /\ ClientOf(c).of = c /\ ClientOf(c).kind = "client"
  /\ \A p : FileOf(p) # Free /\ FileOf(p).of = p /\ FileOf(p).kind = "file"
  /\ \A c, p : ClientOf(c) # FileOf(p)
  BY DEF ClientOf, FileOf, Free

(* Sockets and claims that were there before keep their descriptors while  *)
(* the kernel only hands out free ones.                                    *)
LEMMA OwnersKept ==
  ASSUME Sockets, Claims, FdsGrow,
         \A c \in Conns, f \in Fd : Socket(c, f)' => Socket(c, f),
         \A c \in Conns, f \in Fd : Claim(c, f)' => Claim(c, f) /\ pt'[c].path = pt[c].path
  PROVE  Sockets' /\ Claims'
  <1>1. Sockets'
    BY DescDistinct DEF Sockets, FdsGrow
  <1>2. \A c \in Conns, f \in Fd : Claim(c, f)' => fds'[f] = FileOf(pt'[c].path)
    BY DescDistinct DEF Claims, FdsGrow
  <1>3. \A c, d \in Conns, f \in Fd : Claim(c, f)' /\ Claim(d, f)' => c = d
    BY DEF Claims
  <1> QED
    BY <1>1, <1>2, <1>3 DEF Claims

LEMMA OwnedAccept ==
  ASSUME IInv, CInv, Owned, NEW c \in Conns, KernelAccept(c)
  PROVE  Owned'
  <1>1. PICK f \in Fd : /\ fds[f] = Free /\ fds' = [fds EXCEPT ![f] = ClientOf(c)]
                        /\ Post("accept", c, f)
    BY DEF KernelAccept, LowestFree, FreeFds
  <1>2. /\ ring' = ring /\ NodesKept /\ fds \in [Fd -> Desc]
        /\ \A d \in Conns : d # c => pt'[d] = pt[d]
        /\ pt'[c].phase = "pending" /\ pt'[c].path = pt[c].path
        /\ pt'[c].file = pt[c].file
    BY DEF KernelAccept, NodesKept, cache, IInv, Tasks, OpsType, OthersType, Task
  <1> DEFINE e == [kind |-> "accept", id |-> c, res |-> f]
  <1>3. \A q : q \in Queued' <=> q \in Queued \/ q = e
    <2>1. f \in Int
      BY DEF Fd
    <2> QED
      BY <1>1, <2>1, QueuedPosted
  <1>4. e.kind = "accept" /\ e.id = c /\ e.res = f
    OBVIOUS
  <1> HIDE DEF e
  <1>5. "pending" \notin Waiting /\ "pending" # "statx"
    BY DEF Waiting
  <1>6. \A d \in Conns, g \in Fd : Socket(d, g)' => Socket(d, g) \/ (d = c /\ g = f)
    BY <1>2, <1>3, <1>4, <1>5 DEF Socket, Closed
  <1>7. \A d \in Conns, g \in Fd : Claim(d, g)' => Claim(d, g) /\ pt'[d].path = pt[d].path
    BY <1>2, <1>3, <1>4, <1>5 DEF Claim, NodesKept
  <1>8. FdsGrow /\ fds'[f] = ClientOf(c)
    BY <1>1, <1>2 DEF FdsGrow
  <1>9. Claims'
    <2>1. \A d \in Conns, g \in Fd : Claim(d, g)' => fds'[g] = FileOf(pt'[d].path)
      BY <1>7, <1>8, DescDistinct DEF Owned, Claims, FdsGrow
    <2>2. \A b, d \in Conns, g \in Fd : Claim(b, g)' /\ Claim(d, g)' => b = d
      BY <1>7 DEF Owned, Claims
    <2> QED
      BY <2>1, <2>2 DEF Claims
  <1>10. Sockets'
    BY <1>6, <1>8, DescDistinct DEF Owned, Sockets, FdsGrow
  <1>11. Measured'
    <2>1. \A q \in Queued : q.kind = "statx" => q.id \in Conns
      BY QueueSet DEF Awaited
    <2> QED
      BY <1>2, <1>3, <1>4, <2>1 DEF Owned, Measured
  <1>12. SizeOK'
    BY <1>2 DEF Owned, SizeOK, NodesKept
  <1> QED
    BY <1>9, <1>10, <1>11, <1>12 DEF Owned

LEMMA OwnedAcceptFails ==
  ASSUME IInv, CInv, Owned, KernelAcceptFails
  PROVE  Owned'
  <1>1. /\ UNCHANGED <<fds, ring, pt>> /\ NodesKept /\ FdsGrow /\ Post("accept", None, -1)
        /\ None \notin Conns
    BY ServerAssumption DEF KernelAcceptFails, NodesKept, cache, FdsGrow
  <1> DEFINE e == [kind |-> "accept", id |-> None, res |-> -1]
  <1>2. \A q : q \in Queued' <=> q \in Queued \/ q = e
    BY <1>1, QueuedPosted
  <1>3. e.kind = "accept" /\ e.id = None
    OBVIOUS
  <1> HIDE DEF e
  <1>4. /\ \A d \in Conns, g \in Fd : Socket(d, g)' => Socket(d, g)
        /\ \A d \in Conns, g \in Fd : Claim(d, g)' => Claim(d, g) /\ pt'[d].path = pt[d].path
    BY <1>1, <1>2, <1>3 DEF Socket, Closed, Claim, NodesKept
  <1>5. Measured' /\ SizeOK'
    BY <1>1, <1>2, <1>3 DEF Owned, Measured, SizeOK, NodesKept
  <1> QED
    BY <1>1, <1>4, <1>5, OwnersKept DEF Owned

\* What the completion of an operation changes.
Completed(o, r) ==
  /\ UNCHANGED pt /\ NodesKept /\ ring' = ring \ {o}
  /\ \A q : q \in Queued' <=> q \in Queued \/ q = [kind |-> o.kind, id |-> o.id, res |-> r]

LEMMA OwnedReports ==
  ASSUME IInv, CInv, Owned, NEW o \in ring, NEW r \in Int,
         Completed(o, r), Reports(o, r)
  PROVE  Owned'
  <1> DEFINE e == [kind |-> o.kind, id |-> o.id, res |-> r]
  <1>1. e.kind = o.kind /\ e.id = o.id /\ e.res = r
    OBVIOUS
  <1>2. /\ UNCHANGED pt /\ NodesKept /\ ring' = ring \ {o} /\ FdsGrow
        /\ \A q : q \in Queued' <=> q \in Queued \/ q = e
        /\ o.kind \notin {"openat", "close", "evict", "accept"}
    BY QueueSet DEF Completed, Reports, FdsGrow, OpKinds, Waiting
  <1> HIDE DEF e
  <1>3. /\ \A d \in Conns, g \in Fd : Socket(d, g)' => Socket(d, g)
        /\ \A d \in Conns, g \in Fd : Claim(d, g)' => Claim(d, g) /\ pt'[d].path = pt[d].path
    BY <1>1, <1>2 DEF Socket, Closed, Claim, NodesKept
  <1>4. ASSUME o.kind = "statx", r >= 0, pt[o.id].file.ok
        PROVE  r = Sizes[pt[o.id].path]
    <2>1. /\ o.id \in Conns /\ o.fd \in Fd /\ pt[o.id].phase = "statx"
      BY <1>4, QueueSet DEF Awaited
    <2>2. o.fd = pt[o.id].file.fd
      BY <1>4 DEF CInv, RingFds, FdOf
    <2>3. Claim(o.id, o.fd)
      BY <1>4, <2>1, <2>2 DEF Claim
    <2>4. fds[o.fd] = FileOf(pt[o.id].path)
      BY <2>1, <2>3 DEF Owned, Claims
    <2> QED
      BY <1>4, <2>4, DescDistinct DEF Reports
  <1>5. Measured'
    BY <1>1, <1>2, <1>4 DEF Owned, Measured
  <1>6. SizeOK'
    BY <1>2 DEF Owned, SizeOK, NodesKept
  <1> QED
    BY <1>2, <1>3, <1>5, <1>6, OwnersKept DEF Owned

LEMMA OwnedOpens ==
  ASSUME IInv, CInv, Owned, NEW o \in ring, NEW r \in Int,
         Completed(o, r), Opens(o, r)
  PROVE  Owned'
  <1> DEFINE e == [kind |-> o.kind, id |-> o.id, res |-> r]
  <1>1. e.kind = "openat" /\ e.id = o.id /\ e.res = r /\ o.id \in Conns
    BY QueueSet DEF Opens
  <1>2. /\ UNCHANGED pt /\ NodesKept /\ ring' = ring \ {o} /\ fds \in [Fd -> Desc]
        /\ \A q : q \in Queued' <=> q \in Queued \/ q = e
    BY DEF Completed, IInv, OthersType
  <1> HIDE DEF e
  <1>3. /\ \A d \in Conns, g \in Fd : Socket(d, g)' => Socket(d, g)
        /\ \A d \in Conns, g \in Fd : Claim(d, g)' => Claim(d, g) \/ (d = o.id /\ g = r)
    BY <1>1, <1>2 DEF Socket, Closed, Claim, NodesKept
  <1>4. Measured' /\ SizeOK'
    BY <1>1, <1>2 DEF Owned, Measured, SizeOK, NodesKept
  <1>5. CASE ~(r >= 0) /\ fds' = fds
    <2>1. FdsGrow /\ \A g \in Fd : g # r
      BY <1>5 DEF FdsGrow, Fd
    <2> QED
      BY <1>2, <1>3, <1>4, <2>1, OwnersKept DEF Owned
  <1>6. CASE r \in Fd /\ fds[r] = Free /\ fds' = [fds EXCEPT ![r] = FileOf(pt[o.id].path)]
    <2>1. FdsGrow /\ fds'[r] = FileOf(pt[o.id].path)
      BY <1>2, <1>6 DEF FdsGrow
    <2>2. \A d \in Conns : ~Claim(d, r)
      BY <1>6, DescDistinct DEF Owned, Claims
    <2>3. Sockets'
      BY <1>3, <2>1, DescDistinct DEF Owned, Sockets, FdsGrow
    <2>4. \A d \in Conns, g \in Fd : Claim(d, g)' => fds'[g] = FileOf(pt'[d].path)
      BY <1>2, <1>3, <2>1, DescDistinct DEF Owned, Claims, FdsGrow
    <2>5. \A b, d \in Conns, g \in Fd : Claim(b, g)' /\ Claim(d, g)' => b = d
      BY <1>3, <2>2 DEF Owned, Claims
    <2> QED
      BY <1>4, <2>3, <2>4, <2>5 DEF Owned, Claims
  <1> QED
    BY <1>5, <1>6 DEF Opens

(* A close hits the socket of the connection it is for, which then is      *)
(* closed; the close of an evicted file hits a file nobody else has.       *)
LEMMA OwnedCloses ==
  ASSUME IInv, CInv, Owned, NEW o \in ring, NEW r \in Int,
         Completed(o, r), Closes(o, r)
  PROVE  Owned'
  <1> DEFINE e == [kind |-> o.kind, id |-> o.id, res |-> r]
             c == o.id
  <1>1. /\ e.kind = o.kind /\ e.id = c /\ c \in Conns /\ o.fd \in Fd
        /\ o.kind \in {"close", "evict"}
    BY QueueSet DEF Closes
  <1>2. /\ UNCHANGED pt /\ NodesKept /\ ring' = ring \ {o} /\ fds \in [Fd -> Desc]
        /\ \A q : q \in Queued' <=> q \in Queued \/ q = e
        /\ fds' = [fds EXCEPT ![o.fd] = Free]
    BY DEF Completed, IInv, OthersType, Closes
  <1> HIDE DEF e
  <1>3. /\ \A d \in Conns, g \in Fd : Socket(d, g)' => Socket(d, g)
        /\ \A d \in Conns, g \in Fd : Claim(d, g)' => Claim(d, g)
    BY <1>1, <1>2 DEF Socket, Closed, Claim, NodesKept
  <1>4. Measured' /\ SizeOK'
    BY <1>1, <1>2 DEF Owned, Measured, SizeOK, NodesKept
  <1>5. /\ \A d \in Conns, g \in Fd : Socket(d, g)' => g # o.fd
        /\ \A d \in Conns, g \in Fd : Claim(d, g)' => g # o.fd
    <2>1. CASE o.kind = "close"
      <3>1. Awaited(o) /\ pt[c].phase = "close" /\ "close" \in Waiting
        BY <2>1, QueueSet DEF Awaited, Waiting
      <3>2. pt[c].client = o.fd
        BY <2>1 DEF CInv, RingFds, FdOf
      <3>3. ~Closed(c)
        BY <3>1, QueueSet DEF Closed, Awaited
      <3>4. Socket(c, o.fd)
        BY <3>1, <3>2, <3>3 DEF Socket
      <3>5. fds[o.fd] = ClientOf(c)
        BY <1>1, <3>4 DEF Owned, Sockets
      <3>6. \A g \in Fd : ~Socket(c, g)'
        <4>1. Closed(c)'
          BY <1>1, <1>2, <2>1 DEF Closed
        <4>2. \A q \in Queued' : q.kind = "accept" /\ q.res \in Fd => q.id # c
          BY <1>1, <1>2, <2>1, <3>1, QueueSet DEF Fd
        <4> QED
          BY <4>1, <4>2 DEF Socket
      <3>7. \A d \in Conns : Socket(d, o.fd)' => d = c
        BY <1>1, <1>3, <3>5, DescDistinct DEF Owned, Sockets
      <3>8. \A d \in Conns : ~Claim(d, o.fd)'
        BY <1>1, <1>3, <3>5, DescDistinct DEF Owned, Claims
      <3> QED
        BY <1>1, <3>6, <3>7, <3>8
    <2>2. CASE o.kind = "evict"
      <3>1. /\ key[c] = None /\ pt[c].phase \notin Early
        BY <2>2 DEF CInv, Evicts
      <3>2. o = Op("evict", c, o.fd)
        BY <2>2, QueueSet DEF Op
      <3>3. Claim(c, o.fd)
        BY <3>2 DEF Claim
      <3>4. fds[o.fd] = FileOf(pt[c].path)
        BY <1>1, <3>3 DEF Owned, Claims
      <3>5. \A d \in Conns : ~Socket(d, o.fd)'
        BY <1>1, <1>3, <3>4, DescDistinct DEF Owned, Sockets
      <3>6. \A d \in Conns : Claim(d, o.fd)' => d = c
        BY <1>1, <1>3, <3>3 DEF Owned, Claims
      <3>7. ~Claim(c, o.fd)'
        <4>1. \A q \in Queued' : q.kind = "openat" => q.id # c
          BY <1>1, <1>2, <2>2, <3>1, QueueSet DEF Awaited, Early
        <4>2. pt'[c].phase # "statx" /\ key'[c] = None
          BY <1>2, <3>1 DEF Early, NodesKept
        <4>3. Op("evict", c, o.fd) \notin ring'
          BY <1>2, <3>2
        <4> QED
          BY <4>1, <4>2, <4>3 DEF Claim
      <3> QED
        BY <3>5, <3>6, <3>7
    <2> QED
      BY <1>1, <2>1, <2>2
  <1>6. \A g \in Fd : g # o.fd => fds'[g] = fds[g]
    BY <1>2
  <1>7. Sockets'
    BY <1>3, <1>5, <1>6 DEF Owned, Sockets
  <1>8. Claims'
    BY <1>2, <1>3, <1>5, <1>6 DEF Owned, Claims
  <1> QED
    BY <1>4, <1>7, <1>8 DEF Owned

(* A handler that resumes nobody.                                          *)
LEMMA OwnedStill ==
  ASSUME IInv, CInv, Owned, NEW e, Handling(e), Still(e)
  PROVE  Owned'
  <1>1. /\ UNCHANGED <<fds, pt, ring>> /\ NodesKept /\ FdsGrow /\ e.kind # "close"
        /\ Queued' \subseteq Queued /\ \A q \in Queued : q \in Queued' \/ q = e
    BY QueuedHandled DEF Still, FdsGrow
  <1>2. /\ \A d \in Conns, g \in Fd : Socket(d, g)' => Socket(d, g)
        /\ \A d \in Conns, g \in Fd : Claim(d, g)' => Claim(d, g) /\ pt'[d].path = pt[d].path
    BY <1>1 DEF Socket, Closed, Claim, NodesKept
  <1>3. Measured' /\ SizeOK'
    BY <1>1 DEF Owned, Measured, SizeOK, NodesKept
  <1> QED
    BY <1>1, <1>2, <1>3, OwnersKept DEF Owned

LEMMA OwnedResumes ==
  ASSUME IInv, CInv, Owned, NEW e, Handling(e), NEW t, Resumes(e, t)
  PROVE  Owned'
  <1> DEFINE c == e.id
             o == Op(t.phase, c, FdOf(t.phase, t))
  <1>1. /\ c \in Conns /\ NodesKept /\ FdsGrow /\ ring' = ring \cup {o}
        /\ \A d \in Conns : d # c => pt'[d] = pt[d]
        /\ pt'[c] = t /\ Onward(e, pt[c], t) /\ e \in Queued
        /\ Queued' \subseteq Queued /\ \A q \in Queued : q \in Queued' \/ q = e
        /\ \A q \in Queued' : Awaited(q) => q.id # c
    BY QueuedHandled DEF Resumes, IInv, Tasks, OpsType
  <1>2. o.kind = t.phase /\ o.kind # "evict"
    BY DEF Op, Resumes, Onward, Waiting
  <1>3. \A d, g : Op("evict", d, g) \in ring' => Op("evict", d, g) \in ring
    BY <1>1, <1>2 DEF Op
  <1>4. /\ e.kind # "accept" => pt[c].phase = e.kind /\ pt[c].phase \in Waiting
                                /\ e.kind # "close" /\ t.client = pt[c].client
        /\ e.kind = "accept" => t.client = e.res
    BY <1>1, QueueSet DEF Onward, Resumes, Owns
  <1> HIDE DEF c, o
  <1>5. \A d \in Conns, g \in Fd : Socket(d, g)' => Socket(d, g)
    <2>1. ASSUME NEW d \in Conns, NEW g \in Fd, Socket(d, g)' PROVE Socket(d, g)
      <3>1. CASE \E q \in Queued' : q.kind = "accept" /\ q.id = d /\ q.res = g
        BY <1>1, <3>1 DEF Socket
      <3>2. CASE pt'[d].phase \in Waiting /\ pt'[d].client = g /\ ~Closed(d)'
        <4>1. e.kind # "close" => ~Closed(d)
          BY <1>1, <3>2 DEF Closed
        <4>2. CASE d # c
          <5>1. ~Closed(d)
            BY <1>1, <3>2, <4>1, <4>2 DEF Closed, c
          <5> QED
            BY <1>1, <3>2, <4>2, <5>1 DEF Socket
        <4>3. CASE d = c /\ e.kind = "accept"
          BY <1>1, <1>4, <3>2, <4>3 DEF Socket, c
        <4>4. CASE d = c /\ e.kind # "accept"
          BY <1>1, <1>4, <3>2, <4>1, <4>4 DEF Socket
        <4> QED
          BY <4>2, <4>3, <4>4
      <3> QED
        BY <2>1, <3>1, <3>2 DEF Socket
    <2> QED
      BY <2>1
  <1>6. \A d \in Conns, g \in Fd : Claim(d, g)' => Claim(d, g) /\ pt'[d].path = pt[d].path
    <2>1. ASSUME NEW d \in Conns, NEW g \in Fd, Claim(d, g)', d # c
          PROVE  Claim(d, g) /\ pt'[d].path = pt[d].path
      BY <1>1, <1>3, <2>1 DEF Claim, NodesKept
    <2>2. ASSUME NEW g \in Fd, Claim(c, g)'
          PROVE  Claim(c, g) /\ t.path = pt[c].path
      <3>1. \A q \in Queued' : q.kind = "openat" => q.id # c
        BY <1>1 DEF Awaited
      <3>2. CASE t.phase = "statx" /\ t.file.ok /\ t.file.fd = g
        <4>1. e.kind = "openat" /\ e.res = g /\ pt[c].phase = "openat"
          BY <1>1, <1>4, <3>2 DEF Onward
        <4> QED
          BY <1>1, <4>1 DEF Claim, Onward, c
      <3>3. CASE key'[c] # None /\ node'[c].ok /\ node'[c].fd = g
        BY <1>1, <3>3 DEF Claim, Onward, NodesKept, CInv, EarlyFresh, Early
      <3>4. CASE Op("evict", c, g) \in ring'
        <4>1. Op("evict", c, g) \in ring
          BY <1>3, <3>4
        <4>2. pt[c].phase \notin Early
          BY <4>1 DEF CInv, Evicts, Op
        <4> QED
          BY <1>1, <4>1, <4>2 DEF Claim, Onward, Early
      <3> QED
        BY <1>1, <2>2, <3>1, <3>2, <3>3, <3>4 DEF Claim
    <2> QED
      BY <1>1, <2>1, <2>2
  <1>7. Measured'
    <2>1. \A q \in Queued' : q.kind = "statx" => q.id \in Conns /\ q.id # c
      BY <1>1, QueueSet DEF Awaited
    <2> QED
      BY <1>1, <2>1 DEF Owned, Measured
  <1>8. SizeOK'
    BY <1>1 DEF Owned, SizeOK, NodesKept
  <1> QED
    BY <1>1, <1>5, <1>6, <1>7, <1>8, OwnersKept DEF Owned

LEMMA OwnedEnds ==
  ASSUME IInv, CInv, Owned, NEW e, Handling(e), NEW t, Ends(e, t)
  PROVE  Owned'
  <1> DEFINE c == e.id
  <1>1. /\ c \in Conns /\ NodesKept /\ FdsGrow /\ ring' = ring
        /\ \A d \in Conns : d # c => pt'[d] = pt[d]
        /\ pt'[c] = t /\ t.path = pt[c].path /\ t.phase \notin Waiting \cup Early
        /\ Queued' \subseteq Queued /\ \A q \in Queued : q \in Queued' \/ q = e
        /\ \A q \in Queued' : Awaited(q) => q.id # c
    BY QueuedHandled DEF Ends, IInv, Tasks, OpsType, FdsGrow
  <1>2. \A d \in Conns : d # c /\ ~Closed(d)' => ~Closed(d)
    BY <1>1 DEF Closed
  <1> HIDE DEF c
  <1>3. \A d \in Conns, g \in Fd : Socket(d, g)' => Socket(d, g)
    BY <1>1, <1>2 DEF Socket
  <1>4. \A d \in Conns, g \in Fd : Claim(d, g)' => Claim(d, g) /\ pt'[d].path = pt[d].path
    BY <1>1 DEF Claim, NodesKept, Early
  <1>5. Measured'
    <2>1. \A q \in Queued' : q.kind = "statx" => q.id \in Conns /\ q.id # c
      BY <1>1, QueueSet DEF Awaited
    <2> QED
      BY <1>1, <2>1 DEF Owned, Measured
  <1>6. SizeOK'
    BY <1>1 DEF Owned, SizeOK, NodesKept
  <1> QED
    BY <1>1, <1>3, <1>4, <1>5, <1>6, OwnersKept DEF Owned

(* The file just opened passes to its node of the cache, and the file of   *)
(* the evicted node to the close submitted for it.                         *)
LEMMA OwnedAdds ==
  ASSUME IInv, CInv, Owned, NEW e, Handling(e), NEW t, NEW v, Adds(e, t, v), Sane'
  PROVE  Owned'
  <1> DEFINE c == e.id
             p == pt[c].path
             o == Op("send", c, t.client)
             E == EvictOps(c, t, v)
  <1>1. /\ c \in Conns /\ p \in Paths /\ key[c] = None /\ node[c] = NoFile
        /\ v # c /\ v \in Conns \cup {None} /\ (v # None => key[v] # None)
        /\ \A d \in Conns : d # c => pt'[d] = pt[d] /\ node'[d] = node[d]
        /\ pt'[c] = t /\ node'[c] = t.file
        /\ t.phase = "send" /\ t.path = p /\ t.client = pt[c].client
        /\ key'[c] = p
        /\ \A d \in Conns : d # c => key'[d] = IF d = v THEN None ELSE key[d]
        /\ churned' = (churned \/ v # None)
        /\ ring' = ring \cup {o} \cup E
        /\ E = {Op("evict", n, node[n].fd) : n \in {v} \ {None}}
        /\ fds' = fds
    BY AddFacts
  <1>2. /\ e.kind = "statx" /\ pt[c].phase = "statx" /\ t.file = Stated(pt[c], e.res).file
        /\ e \in Queued /\ Queued' \subseteq Queued
        /\ \A q \in Queued : q \in Queued' \/ q = e
        /\ \A q \in Queued' : Awaited(q) => q.id # c
        /\ pt[c] \in Task /\ e.res \in Int
    BY QueuedHandled, QueueSet DEF Adds, IInv, Tasks, OpsType, Completion
  <1>3. FdsGrow
    BY <1>1 DEF FdsGrow
  <1>4. t.file.ok => /\ pt[c].file.ok /\ t.file.fd = pt[c].file.fd
                     /\ e.res >= 0 /\ t.file.size = e.res
    BY <1>2, ResultTasks
  <1>5. v # None => node[v].ok
    BY <1>1 DEF Sane, AllOpened
  <1>6. \A d, g : Op("evict", d, g) \in ring' =>
          Op("evict", d, g) \in ring \/ (v # None /\ d = v /\ g = node[v].fd)
    BY <1>1, ZenonT(30) DEF Op
  <1> HIDE DEF o, E
  <1>7. \A d \in Conns, g \in Fd : Socket(d, g)' => Socket(d, g)
    <2>1. \A d \in Conns : ~Closed(d)' => ~Closed(d)
      BY <1>2 DEF Closed
    <2>2. "send" \in Waiting /\ "statx" \in Waiting
      BY DEF Waiting
    <2> HIDE DEF c, p
    <2> QED
      BY <1>1, <1>2, <2>1, <2>2 DEF Socket
  <1>8. ASSUME NEW d \in Conns, NEW g \in Fd, Claim(d, g)', d # c
        PROVE  Claim(d, g) /\ pt'[d].path = pt[d].path
    <2> HIDE DEF c, p
    <2>1. CASE Op("evict", d, g) \in ring'
      BY <1>1, <1>5, <1>6, <1>8, <2>1 DEF Claim
    <2>2. CASE Op("evict", d, g) \notin ring'
      BY <1>1, <1>2, <1>8, <2>2 DEF Claim
    <2> QED
      BY <2>1, <2>2
  <1>9. ASSUME NEW g \in Fd, Claim(c, g)'
        PROVE  Claim(c, g)
    <2>1. \A q \in Queued' : q.kind = "openat" => q.id # c
      BY <1>2 DEF Awaited
    <2>2. Op("evict", c, g) \notin ring'
      <3>1. Op("evict", c, g) \in ring => pt[c].phase \notin Early
        BY DEF CInv, Evicts, Op
      <3> QED
        BY <1>1, <1>2, <1>6, <3>1 DEF Early
    <2>3. t.file.ok /\ t.file.fd = g
      BY <1>1, <1>9, <2>1, <2>2 DEF Claim
    <2> QED
      BY <1>2, <1>4, <2>3 DEF Claim
  <1>10. \A d \in Conns, g \in Fd : Claim(d, g)' => Claim(d, g) /\ pt'[d].path = pt[d].path
    BY <1>1, <1>8, <1>9
  <1> HIDE DEF c, p
  <1>11. Measured'
    <2>1. \A q \in Queued' : q.kind = "statx" => q.id \in Conns /\ q.id # c
      BY <1>2, QueueSet DEF Awaited
    <2> QED
      BY <1>1, <1>2, <2>1 DEF Owned, Measured
  <1>12. SizeOK'
    <2>1. t.file.ok => t.file.size = Sizes[p]
      BY <1>2, <1>4 DEF Owned, Measured, p, c
    <2> QED
      BY <1>1, <2>1 DEF Owned, SizeOK
  <1> QED
    BY <1>3, <1>7, <1>10, <1>11, <1>12, OwnersKept DEF Owned

(* A cache that is sane has been so.                                       *)
LEMMA SaneBefore ==
  ASSUME IInv, CInv, [Next]_vars, Sane'
  PROVE  Sane
  <1>1. NodesKept => Sane
    BY DEF NodesKept, Sane, AllOpened
  <1>2. CASE UNCHANGED vars
    BY <1>1, <1>2 DEF vars, cache, NodesKept
  <1>3. ASSUME NEW o \in ring, Kernel(o) PROVE Sane
    BY <1>1, <1>3, KernelDoes DEF ServerKept, cache, NodesKept
  <1>4. ASSUME NEW c \in Conns, KernelAccept(c) PROVE Sane
    BY <1>1, <1>4 DEF KernelAccept, cache, NodesKept
  <1>5. ASSUME KernelAcceptFails PROVE Sane
    BY <1>1, <1>5 DEF KernelAcceptFails, cache, NodesKept
  <1>6. ASSUME ~aborted, Handle PROVE Sane
    <2> DEFINE e == Head(cq)
    <2>1. Handling(e) /\ Does(e)
      BY <1>6, HandleDoes
    <2> HIDE DEF e
    <2>2. ASSUME NEW t, NEW v, Adds(e, t, v) PROVE Sane
      <3>1. /\ e.id \in Conns /\ node[e.id] = NoFile
            /\ \A d \in Conns : d # e.id => node'[d] = node[d]
            /\ churned' = (churned \/ v # None)
        BY <2>1, <2>2, AddFacts
      <3>2. NoFile.ok
        BY DEF NoFile
      <3> QED
        BY <3>1, <3>2 DEF Sane, AllOpened
    <2> QED
      BY <1>1, <2>1, <2>2 DEF Does, Still, Resumes, Ends
  <1> QED
    BY <1>2, <1>3, <1>4, <1>5, <1>6 DEF Next, Step, Rest

LEMMA OwnedStep ==
  ASSUME IInv, CInv, Sane => Owned, [Next]_vars, Sane'
  PROVE  Owned'
  <1>1. Owned
    BY SaneBefore
  <1>2. CASE UNCHANGED vars
    BY <1>1, <1>2 DEF vars, kernel, cache, Owned, Sockets, Claims, Measured, SizeOK,
       Socket, Closed, Claim, Queued
  <1>3. ASSUME NEW o \in ring, Kernel(o) PROVE Owned'
    <2>1. PICK r \in Int : Complete(o, r) /\ (Reports(o, r) \/ Opens(o, r) \/ Closes(o, r))
      BY <1>3, KernelDoes
    <2>2. Completed(o, r)
      <3>1. pt' = pt /\ NodesKept /\ ring' = ring \ {o} /\ Post(o.kind, o.id, r)
        BY <1>3, <2>1, KernelDoes DEF ServerKept, NodesKept, cache, Complete
      <3>2. o.kind \in OpKinds \cup {"accept"} /\ o.id \in Conns \cup {None}
        BY QueueSet
      <3> QED
        BY <3>1, <3>2, QueuedPosted DEF Completed
    <2> QED
      BY <1>1, <2>1, <2>2, OwnedReports, OwnedOpens, OwnedCloses
  <1>4. ASSUME ~aborted, Handle PROVE Owned'
    <2> DEFINE e == Head(cq)
    <2>1. Handling(e) /\ Does(e)
      BY <1>4, HandleDoes
    <2> HIDE DEF e
    <2> QED
      BY <1>1, <2>1, OwnedStill, OwnedResumes, OwnedEnds, OwnedAdds DEF Does
  <1> QED
    BY <1>1, <1>2, <1>3, <1>4, OwnedAccept, OwnedAcceptFails DEF Next, Step, Rest

LEMMA InitOwned == Init => Owned
  <1> SUFFICES ASSUME Init PROVE Owned
    OBVIOUS
  <1>1. Queued = {} /\ ring = {}
    BY DEF Init, Queued
  <1>2. \A c \in Conns : pt[c].phase = "none" /\ key[c] = None
    BY DEF Init, FC!Init, NoTask
  <1>3. "none" \notin Waiting /\ "none" # "statx"
    BY DEF Waiting
  <1> QED
    BY <1>1, <1>2, <1>3 DEF Owned, Sockets, Claims, Measured, SizeOK, Socket, Claim

LEMMA CacheInductive == Spec => []GInv
  <1>1. Init => GInv
    BY InitIInv, InitCInv, InitOwned DEF GInv
  <1>2. GInv /\ [Next]_vars => GInv'
    BY NextIInv, CInvStep, OwnedStep DEF GInv
  <1> QED
    BY <1>1, <1>2, PTL DEF Spec

-----------------------------------------------------------------------------
(* The theorems.                                                           *)

(* The cache never finds a file that was closed or replaced under it: what *)
(* it finds for a path is an open descriptor of that path, with its size,  *)
(* however requests for it interleave, evictions included, as long as no   *)
(* cache that has evicted holds a file whose openat or statx failed.       *)
THEOREM CacheFindsOpen == Spec => [](Sane => CacheSound)
  <1>1. GInv /\ Sane => CacheSound
    <2> SUFFICES ASSUME GInv, Sane PROVE CacheSound
      OBVIOUS
    <2>1. ASSUME NEW p \in Paths, map[p] # None, node[map[p]].ok
          PROVE  /\ fds[node[map[p]].fd] = FileOf(p)
                 /\ node[map[p]].size = Sizes[p]
      <3> DEFINE n == map[p]
      <3>1. n \in Conns /\ key[n] = p /\ p # None /\ node[n].fd \in Fd
        BY <2>1, ServerAssumption DEF GInv, CInv, MapKey, IInv, OthersType, FC!TypeOK, File
      <3> HIDE DEF n
      <3>2. Claim(n, node[n].fd) /\ pt[n].path = p /\ node[n].size = Sizes[p]
        BY <2>1, <3>1 DEF Claim, GInv, Owned, SizeOK, CInv, KeyPath, n
      <3>3. fds[node[n].fd] = FileOf(p)
        BY <3>1, <3>2 DEF GInv, Owned, Claims
      <3> QED
        BY <3>2, <3>3 DEF n
    <2> QED
      BY <2>1 DEF CacheSound
  <1> QED
    BY <1>1, CacheInductive, PTL

(* The socket of a client is its own until its own close: no close for     *)
(* another response, and none of an evicted file, ever hits it, as long as *)
(* no cache that has evicted holds a file whose openat or statx failed.    *)
THEOREM SocketsIsolated == Spec => [](Sane => ClientIsolated)
  <1>1. GInv /\ Sane => ClientIsolated
    <2> SUFFICES ASSUME GInv, Sane, NEW c \in Conns, pt[c].phase \in Waiting
                 PROVE  \/ fds[pt[c].client] = ClientOf(c)
                        \/ Closed(c)
      BY DEF ClientIsolated, Closed
    <2>1. pt[c].client \in Fd
      BY DEF GInv, IInv, Tasks, OpsType, Task
    <2> QED
      BY <2>1 DEF GInv, Owned, Sockets, Socket
  <1> QED
    BY <1>1, CacheInductive, PTL

-----------------------------------------------------------------------------
(* Before the first eviction.                                              *)

\* A response serves the file_t of a node that still has its path.
Shared ==
  \A c \in Conns : pt[c].phase \in Responds =>
    \E n \in Conns : key[n] = pt[c].path /\ node[n] = pt[c].file

\* The hash table has a slot for every file, and finds every node.
RoomyMap == IsFiniteSet(Paths) /\ Cardinality(Paths) <= MapSlots
Mapped == {p \in Paths : map[p] # None}
KeyMap ==
  /\ used = Cardinality(Mapped)
  /\ \A n \in Conns : key[n] # None => map[key[n]] = n

\* The inductive invariant before the first eviction.
HInv == GInv /\ (~churned => Shared /\ (RoomyMap => KeyMap))

(* A step leaves the nodes of the cache alone, and serves what they hold,  *)
(* or adds one.                                                            *)
LEMMA CacheMoves ==
  ASSUME IInv, CInv, [Next]_vars
  PROVE  \/ /\ NodesKept
            /\ \A c \in Conns : pt'[c].phase \in Responds =>
                 \/ /\ pt[c].phase \in Responds
                    /\ pt'[c].path = pt[c].path /\ pt'[c].file = pt[c].file
                 \/ LET p == pt'[c].path
                    IN  p \in Paths /\ map[p] # None /\ pt'[c].file = node[map[p]]
         \/ \E e, t, v : Handling(e) /\ Adds(e, t, v)
  <1> DEFINE Serves ==
               \A c \in Conns : pt'[c].phase \in Responds =>
                 \/ /\ pt[c].phase \in Responds
                    /\ pt'[c].path = pt[c].path /\ pt'[c].file = pt[c].file
                 \/ LET p == pt'[c].path
                    IN  p \in Paths /\ map[p] # None /\ pt'[c].file = node[map[p]]
  <1>0. pt \in [Conns -> Task]
    BY DEF IInv, Tasks, OpsType
  <1>1. pt' = pt => Serves
    OBVIOUS
  <1>2. ASSUME NEW e, NEW t, Resumes(e, t) PROVE NodesKept /\ Serves
    <2>1. /\ NodesKept /\ e.id \in Conns /\ Onward(e, pt[e.id], t)
          /\ pt' = [pt EXCEPT ![e.id] = t]
      BY <1>2 DEF Resumes
    <2>2. /\ \A d \in Conns : d # e.id => pt'[d] = pt[d]
          /\ pt'[e.id] = t
      BY <1>0, <2>1
    <2>3. t.phase \in Responds =>
            \/ pt[e.id].phase \in Responds /\ t.path = pt[e.id].path /\ t.file = pt[e.id].file
            \/ t.path \in Paths /\ map[t.path] # None /\ t.file = node[map[t.path]]
      BY <2>1 DEF Onward, Found, FC!Hit, Responds
    <2> QED
      BY <2>1, <2>2, <2>3
  <1>3. ASSUME NEW e, NEW t, Ends(e, t) PROVE NodesKept /\ Serves
    <2>1. /\ NodesKept /\ e.id \in Conns /\ t.phase \notin Responds
          /\ pt' = [pt EXCEPT ![e.id] = t]
      BY <1>3 DEF Ends, Waiting, Responds
    <2> QED
      BY <1>0, <2>1
  <1>4. ASSUME NEW c \in Conns, KernelAccept(c) PROVE NodesKept /\ Serves
    <2>1. "pending" \notin Responds
      BY DEF Responds
    <2>2. NodesKept /\ pt' = [pt EXCEPT ![c].phase = "pending"]
      BY <1>4 DEF KernelAccept, NodesKept, cache
    <2>3. pt'[c].phase = "pending" /\ \A d \in Conns : d # c => pt'[d] = pt[d]
      BY <1>0, <2>2 DEF Task
    <2> QED
      BY <2>1, <2>2, <2>3
  <1>5. ASSUME KernelAcceptFails \/ (\E o \in ring : Kernel(o)) \/ UNCHANGED vars
        PROVE  NodesKept /\ pt' = pt
    <2>1. KernelAcceptFails => NodesKept /\ pt' = pt
      BY DEF KernelAcceptFails, NodesKept, cache
    <2>2. (\E o \in ring : Kernel(o)) => NodesKept /\ pt' = pt
      BY KernelDoes DEF ServerKept, NodesKept, cache
    <2>3. UNCHANGED vars => NodesKept /\ pt' = pt
      BY DEF vars, kernel, NodesKept, cache
    <2> QED
      BY <1>5, <2>1, <2>2, <2>3
  <1>6. ASSUME ~aborted, Handle
        PROVE  (NodesKept /\ Serves) \/ \E e, t, v : Handling(e) /\ Adds(e, t, v)
    <2>1. PICK e : Handling(e) /\ Does(e)
      BY <1>6, HandleDoes
    <2>2. Still(e) => NodesKept /\ pt' = pt
      BY DEF Still
    <2> QED
      BY <1>1, <1>2, <1>3, <2>1, <2>2 DEF Does
  <1> HIDE DEF Serves
  <1>7. (NodesKept /\ Serves) \/ \E e, t, v : Handling(e) /\ Adds(e, t, v)
    BY <1>1, <1>4, <1>5, <1>6 DEF Next, Step, Rest
  <1> QED
    BY <1>7 DEF Serves

(* A file enters a cache with room for it.                                 *)
LEMMA AddsMapped ==
  ASSUME IInv, CInv, RoomyMap, KeyMap,
         NEW e, Handling(e), NEW t, Adds(e, t, None)
  PROVE  KeyMap'
  <1> DEFINE c == e.id
             p == pt[c].path
  <1>1. /\ c \in Conns /\ p \in Paths /\ key[c] = None /\ map[p] = None
        /\ key'[c] = p
        /\ \A d \in Conns : d # c => key'[d] = key[d]
    BY AddFacts, ServerAssumption
  <1>2. /\ FC!Add(p, c, None) /\ FC!TypeOK /\ None \notin Conns /\ None \notin Paths
        /\ MapSlots \in Nat
    BY ServerAssumption DEF Adds, IInv, OthersType
  <1> HIDE DEF c, p
  <1>3. FC!Without(None) = map
    BY DEF FC!Without
  <1>4. /\ IsFiniteSet(Paths) /\ Cardinality(Paths) <= MapSlots
        /\ Mapped \subseteq Paths /\ p \notin Mapped
    BY <1>1 DEF RoomyMap, Mapped
  <1>5. /\ IsFiniteSet(Mapped) /\ Cardinality(Mapped) \in Nat
        /\ Cardinality(Mapped \cup {p}) = Cardinality(Mapped) + 1
    BY <1>4, FS_Subset, FS_AddElement, FS_CardinalityType
  <1>6. Cardinality(Mapped \cup {p}) <= Cardinality(Paths) /\ Cardinality(Paths) \in Nat
    BY <1>1, <1>4, FS_Subset, FS_CardinalityType
  <1>7. used = Cardinality(Mapped)
    BY DEF KeyMap
  <1>8. used # MapSlots
    BY <1>2, <1>4, <1>5, <1>6, <1>7
  <1>9. map' = [map EXCEPT ![p] = c] /\ used' = used + 1
    BY <1>1, <1>2, <1>3, <1>8 DEF FC!Add
  <1>10. Mapped' = Mapped \cup {p}
    BY <1>1, <1>2, <1>9 DEF Mapped, FC!TypeOK
  <1>11. used' = Cardinality(Mapped')
    BY <1>5, <1>7, <1>9, <1>10
  <1>12. ASSUME NEW n \in Conns, key'[n] # None PROVE map'[key'[n]] = n
    <2>1. CASE n = c
      BY <1>1, <1>2, <1>9, <2>1 DEF FC!TypeOK
    <2>2. CASE n # c
      <3>1. key'[n] = key[n] /\ map[key[n]] = n /\ key[n] \in Paths
        BY <1>1, <1>2, <1>12, <2>2 DEF KeyMap, FC!TypeOK
      <3> QED
        BY <1>1, <1>2, <1>9, <3>1 DEF FC!TypeOK
    <2> QED
      BY <2>1, <2>2
  <1> QED
    BY <1>11, <1>12 DEF KeyMap

LEMMA HistoryStep ==
  ASSUME HInv, [Next]_vars, ~churned'
  PROVE  ~churned /\ Shared' /\ (RoomyMap => KeyMap')
  <1>1. IInv /\ CInv /\ OthersType
    BY DEF HInv, GInv, IInv
  <1>2. FC!TypeOK /\ None \notin Conns /\ None \notin Paths
    BY <1>1, ServerAssumption DEF OthersType
  <1>3. CASE /\ NodesKept
             /\ \A c \in Conns : pt'[c].phase \in Responds =>
                  \/ /\ pt[c].phase \in Responds
                     /\ pt'[c].path = pt[c].path /\ pt'[c].file = pt[c].file
                  \/ LET p == pt'[c].path
                     IN  p \in Paths /\ map[p] # None /\ pt'[c].file = node[map[p]]
    <2>1. ~churned /\ Shared /\ (RoomyMap => KeyMap)
      BY <1>3 DEF HInv, NodesKept
    <2>2. Shared'
      <3>1. ASSUME NEW c \in Conns, pt'[c].phase \in Responds
            PROVE  \E n \in Conns : key'[n] = pt'[c].path /\ node'[n] = pt'[c].file
        <4>1. CASE /\ pt[c].phase \in Responds
                   /\ pt'[c].path = pt[c].path /\ pt'[c].file = pt[c].file
          BY <1>3, <2>1, <4>1 DEF Shared, NodesKept
        <4> DEFINE p == pt'[c].path
        <4>2. CASE p \in Paths /\ map[p] # None /\ pt'[c].file = node[map[p]]
          <5>1. map[p] \in Conns /\ key[map[p]] = p
            BY <1>1, <1>2, <4>2 DEF CInv, MapKey, FC!TypeOK
          <5> QED
            BY <1>3, <4>2, <5>1 DEF NodesKept
        <4> QED
          BY <1>3, <3>1, <4>1, <4>2
      <3> QED
        BY <3>1 DEF Shared
    <2>3. KeyMap => KeyMap'
      BY <1>3 DEF KeyMap, Mapped, NodesKept
    <2> QED
      BY <2>1, <2>2, <2>3
  <1>4. ASSUME NEW e, NEW t, NEW v, Handling(e), Adds(e, t, v)
        PROVE  ~churned /\ Shared' /\ (RoomyMap => KeyMap')
    <2>1. LET c == e.id
              p == pt[c].path
          IN /\ c \in Conns /\ p \in Paths /\ key[c] = None
             /\ \A d \in Conns : d # c => pt'[d] = pt[d] /\ node'[d] = node[d]
             /\ pt'[c] = t /\ node'[c] = t.file /\ t.path = p
             /\ key'[c] = p
             /\ \A d \in Conns : d # c => key'[d] = IF d = v THEN None ELSE key[d]
             /\ churned' = (churned \/ v # None)
      BY <1>1, <1>4, AddFacts
    <2>2. ~churned /\ v = None
      BY <2>1
    <2>3. Shared /\ (RoomyMap => KeyMap)
      BY <2>2 DEF HInv
    <2>4. RoomyMap => KeyMap'
      BY <1>1, <1>4, <2>2, <2>3, AddsMapped
    <2>5. \A d \in Conns : pt[d].phase \in Responds => pt[d].path # None
      BY <1>1, <1>2 DEF IInv, Tasks, PathOK, Serving, Waiting, Responds
    <2>6. Shared'
      BY <1>2, <2>1, <2>2, <2>3, <2>5 DEF Shared
    <2> QED
      BY <2>2, <2>4, <2>6
  <1> QED
    BY <1>1, <1>3, <1>4, CacheMoves

LEMMA HistoryInductive == Spec => []HInv
  <1>1. Init => HInv
    <2> SUFFICES ASSUME Init PROVE HInv
      OBVIOUS
    <2>1. GInv
      BY InitIInv, InitCInv, InitOwned DEF GInv
    <2>2. Shared
      BY DEF Init, NoTask, Shared, Responds
    <2>3. KeyMap
      <3>1. Mapped = {} /\ used = 0 /\ \A n \in Conns : key[n] = None
        BY DEF Init, FC!Init, Mapped
      <3>2. Cardinality({}) = 0
        BY FS_EmptySet
      <3> QED
        BY <3>1, <3>2 DEF KeyMap
    <2> QED
      BY <2>1, <2>2, <2>3 DEF HInv
  <1>2. HInv /\ [Next]_vars => HInv'
    <2>1. HInv /\ [Next]_vars => GInv'
      BY NextIInv, CInvStep, OwnedStep DEF GInv, HInv
    <2> QED
      BY <2>1, HistoryStep DEF HInv
  <1> QED
    BY <1>1, <1>2, PTL DEF Spec

(* What a response copied out of the cache, while nothing is evicted.      *)
LEMMA ReadsOwnFile ==
  ASSUME HInv, ~churned
  PROVE  /\ ServeSound
         /\ \A c \in Conns : pt[c].phase \in Responds /\ pt[c].file.ok =>
              pt[c].file.size = Sizes[pt[c].path]
  <1>1. IInv /\ CInv /\ Owned /\ Shared
    BY DEF HInv, GInv, Sane
  <1>2. ASSUME NEW c \in Conns, pt[c].phase \in Responds, pt[c].file.ok
        PROVE  /\ fds[pt[c].file.fd] = FileOf(pt[c].path)
               /\ pt[c].file.size = Sizes[pt[c].path]
    <2>1. pt[c] \in Task /\ pt[c].path \in Paths /\ pt[c].file.fd \in Fd
      BY <1>1, <1>2 DEF IInv, Tasks, PathOK, OpsType, Serving, Waiting, Responds, Task, File
    <2>2. PICK n \in Conns : key[n] = pt[c].path /\ node[n] = pt[c].file
      BY <1>1, <1>2 DEF Shared
    <2>3. key[n] # None
      BY <2>1, <2>2, ServerAssumption
    <2>4. Claim(n, pt[c].file.fd) /\ pt[n].path = pt[c].path
      BY <1>1, <1>2, <2>2, <2>3 DEF Claim, CInv, KeyPath
    <2>5. pt[c].file.size = Sizes[pt[c].path]
      BY <1>1, <1>2, <2>2, <2>3 DEF Owned, SizeOK
    <2> QED
      BY <1>1, <2>1, <2>4, <2>5 DEF Owned, Claims
  <1> QED
    BY <1>2 DEF ServeSound, Responds

(* Until the first eviction a response reads the descriptor of its own     *)
(* file, although it took only a copy of the file_t in the cache.          *)
THEOREM ResponsesReadTheirFile == Spec => [](~churned => ServeSound)
  <1>1. HInv => (~churned => ServeSound)
    BY ReadsOwnFile
  <1> QED
    BY <1>1, HistoryInductive, PTL

(* Until the first eviction, and with a slot of the hash table for every   *)
(* file, no file is in the cache twice however many requests miss on it.   *)
THEOREM FilesCachedOnce == Spec => [](RoomyMap /\ ~churned => CachedOnce)
  <1>1. HInv => (RoomyMap /\ ~churned => CachedOnce)
    BY DEF HInv, KeyMap, CachedOnce
  <1> QED
    BY <1>1, HistoryInductive, PTL

\* The cache has an entry for every public file.
RoomyCache == RoomyMap /\ Cardinality(Paths) <= CacheCap

(* A file that is not cached finds the cache with an entry to spare.       *)
LEMMA RoomLeft ==
  ASSUME IInv, CInv, KeyMap, RoomyCache, NEW p \in Paths, map[p] = None
  PROVE  Cardinality(FC!Resident) < CacheCap
  <1> DEFINE R == FC!Resident
             S == Paths \ {p}
             f == [n \in R |-> key[n]]
  <1>1. FC!TypeOK /\ None \notin Conns /\ CacheCap \in Nat
    BY ServerAssumption DEF IInv, OthersType
  <1>2. IsFiniteSet(Paths) /\ Cardinality(Paths) <= CacheCap
    BY DEF RoomyCache, RoomyMap
  <1>3. /\ IsFiniteSet(S) /\ Cardinality(S) = Cardinality(Paths) - 1
        /\ Cardinality(S) \in Nat /\ Cardinality(Paths) \in Nat
    BY <1>2, FS_RemoveElement, FS_CardinalityType
  <1>4. \A n \in R : n \in Conns /\ key[n] \in S /\ map[key[n]] = n
    <2>1. \A n \in R : n \in Conns /\ key[n] # None
      BY DEF FC!Resident
    <2> QED
      BY <1>1, <2>1 DEF KeyMap, FC!TypeOK
  <1> HIDE DEF R, S
  <1>5. f \in [R -> S] /\ \A a, b \in R : f[a] = f[b] => a = b
    BY <1>4
  <1> HIDE DEF f
  <1>6. f \in Injection(R, S)
    BY <1>5 DEF Injection, IsInjective
  <1>7. IsFiniteSet(R) /\ Cardinality(R) <= Cardinality(S)
    BY <1>3, <1>6, FS_Injection
  <1>8. Cardinality(R) \in Nat
    BY <1>7, FS_CardinalityType
  <1>9. Cardinality(R) < CacheCap
    BY <1>1, <1>2, <1>3, <1>7, <1>8
  <1> QED
    BY <1>9 DEF R

(* With an entry of the cache and a slot of its hash table for every file  *)
(* nothing is ever evicted.                                                *)
LEMMA NothingEvicted == ASSUME RoomyCache PROVE Spec => [](~churned)
  <1>1. Init => ~churned
    BY DEF Init, FC!Init
  <1>2. HInv /\ ~churned /\ [Next]_vars => ~churned'
    <2> SUFFICES ASSUME HInv, ~churned, [Next]_vars PROVE ~churned'
      OBVIOUS
    <2>1. IInv /\ CInv /\ KeyMap
      BY DEF HInv, GInv, RoomyCache
    <2>2. ASSUME NEW e, NEW t, NEW v, Handling(e), Adds(e, t, v) PROVE ~churned'
      <3>1. map[pt[e.id].path] = None /\ pt[e.id].path \in Paths
            /\ churned' = (churned \/ v # None)
        BY <2>1, <2>2, AddFacts
      <3>2. Cardinality(FC!Resident) < CacheCap
        BY <2>1, <3>1, RoomLeft
      <3>3. \A X : FC!Cardinality(X) = Cardinality(X)
        BY DEF FC!Cardinality, Cardinality
      <3>4. v = None
        BY <2>2, <3>2, <3>3 DEF Adds, FC!Add
      <3> QED
        BY <3>1, <3>4
    <2> QED
      BY <2>1, <2>2, CacheMoves DEF NodesKept
  <1> QED
    BY <1>1, <1>2, HistoryInductive, PTL DEF Spec

(* With room in the cache for every public file (async_io_create gives it  *)
(* 16 entries, and 23 slots; the server has a list of the files only while *)
(* there are at most seven) the descriptors of clients and files are never *)
(* confused, whatever operations fail, and in whatever order.              *)
THEOREM RoomyServerSound ==
  ASSUME RoomyCache
  PROVE  Spec => [](ClientIsolated /\ CacheSound /\ CachedOnce /\ ServeSound)
  <1>1. RoomyMap
    BY DEF RoomyCache
  <1> QED
    BY <1>1, NothingEvicted, CacheFindsOpen, SocketsIsolated, ResponsesReadTheirFile,
       FilesCachedOnce, PTL DEF Sane

-----------------------------------------------------------------------------
(* How many operations are in flight.                                      *)

Waiters == {c \in Conns : pt[c].phase \in Waiting}
AcceptsDone == {i \in 1..Len(cq) : cq[i].kind = "accept"}

\* A slot of server_run is armed, or its completion is queued, or lost.
RInv ==
  /\ IInv
  /\ IsFiniteSet(ring) /\ IsFiniteSet(Waiters)
  /\ armed + Cardinality(AcceptsDone) <= Accepts

(* Completions queued and handled, counted.                                *)
LEMMA AcceptsCounted ==
  ASSUME IInv
  PROVE  IsFiniteSet(AcceptsDone) /\ Cardinality(AcceptsDone) \in Nat
  <1>1. Len(cq) \in Nat
    BY LenProperties DEF IInv, Tasks, OpsType
  <1>2. IsFiniteSet(1..Len(cq)) /\ AcceptsDone \subseteq 1..Len(cq)
    BY <1>1, FS_Interval DEF AcceptsDone
  <1>3. IsFiniteSet(AcceptsDone)
    BY <1>2, FS_Subset
  <1> QED
    BY <1>3, FS_CardinalityType

LEMMA AcceptsPosted ==
  ASSUME IInv, NEW k \in OpKinds \cup {"accept"}, NEW d \in Conns \cup {None},
         NEW r \in Int, Post(k, d, r)
  PROVE  Cardinality(AcceptsDone') =
           Cardinality(AcceptsDone) + (IF k = "accept" THEN 1 ELSE 0)
  <1> DEFINE e == [kind |-> k, id |-> d, res |-> r]
             n == Len(cq) + 1
  <1>1. e \in Completion /\ e.kind = k
    BY DEF Completion
  <1>2. cq' = Append(cq, e) /\ cq \in Seq(Completion)
    BY DEF Post, IInv, Tasks, OpsType
  <1> HIDE DEF e
  <1>3. /\ Len(cq') = n /\ Len(cq) \in Nat /\ cq'[n] = e
        /\ \A i \in 1..Len(cq) : cq'[i] = cq[i]
    BY <1>1, <1>2, QueueAppend, LenProperties
  <1>4. n \notin 1..Len(cq) /\ \A i : i \in 1..n <=> i \in 1..Len(cq) \/ i = n
    BY <1>3
  <1> HIDE DEF n
  <1>5. AcceptsDone' = IF k = "accept" THEN AcceptsDone \cup {n} ELSE AcceptsDone
    BY <1>1, <1>3, <1>4 DEF AcceptsDone
  <1>6. n \notin AcceptsDone
    BY <1>4 DEF AcceptsDone
  <1>7. IsFiniteSet(AcceptsDone) /\ Cardinality(AcceptsDone) \in Nat
    BY AcceptsCounted
  <1>8. Cardinality(AcceptsDone \cup {n}) = Cardinality(AcceptsDone) + 1
    BY <1>6, <1>7, FS_AddElement
  <1> QED
    BY <1>5, <1>7, <1>8

LEMMA AcceptsHandled ==
  ASSUME IInv, NEW e, Handling(e)
  PROVE  /\ Cardinality(AcceptsDone') \in Nat
         /\ Cardinality(AcceptsDone') <=
              Cardinality(AcceptsDone) - (IF e.kind = "accept" THEN 1 ELSE 0)
  <1>1. OpsType /\ QueueOK /\ cq # <<>> /\ cq' = Tail(cq)
    BY DEF IInv, Tasks, OpsInv, Handling
  <1>2. /\ Len(cq') \in Nat /\ e = cq[1] /\ 1 \in 1..Len(cq)
        /\ \A i \in 1..Len(cq') : cq'[i] = cq[i + 1] /\ i + 1 \in 1..Len(cq) /\ i + 1 # 1
    BY <1>1, HandleQueue DEF Handling
  <1> DEFINE A == AcceptsDone
             B == {i \in 1..Len(cq') : cq'[i].kind = "accept"}
             f == [i \in B |-> i + 1]
  <1>3. IsFiniteSet(A) /\ Cardinality(A) \in Nat
    BY AcceptsCounted
  <1>4. \A i \in B : i + 1 \in A \ {1} /\ i \in Int
    BY <1>2 DEF AcceptsDone
  <1>5. 1 \in A <=> e.kind = "accept"
    BY <1>2 DEF AcceptsDone
  <1>6. AcceptsDone' = B
    BY DEF AcceptsDone
  <1> HIDE DEF A, B
  <1>7. f \in [B -> A \ {1}] /\ \A i, j \in B : f[i] = f[j] => i = j
    BY <1>4
  <1> HIDE DEF f
  <1>8. f \in Injection(B, A \ {1})
    BY <1>7 DEF Injection, IsInjective
  <1>9. /\ IsFiniteSet(A \ {1})
        /\ Cardinality(A \ {1}) = IF 1 \in A THEN Cardinality(A) - 1 ELSE Cardinality(A)
    BY <1>3, FS_RemoveElement
  <1>10. IsFiniteSet(B) /\ Cardinality(B) <= Cardinality(A \ {1})
    BY <1>8, <1>9, FS_Injection
  <1>11. Cardinality(B) \in Nat
    BY <1>10, FS_CardinalityType
  <1> QED
    BY <1>3, <1>5, <1>6, <1>9, <1>10, <1>11 DEF A

(* Only the completion of an accept arms a slot, and its own at most.      *)
LEMMA Rearms ==
  ASSUME IInv, Handle
  PROVE  \/ armed' = armed
         \/ Head(cq).kind = "accept" /\ armed' = armed + 1
  BY DEF Handle, HandleAccept, HandleRecv, HandleOpenat, HandleStatx, HandleSend,
     HandleFill, HandleDrain, HandleClose, HandleEvict, Rearmed

(* A handler submits an operation and at most one close, for one task.     *)
LEMMA DoesFinite ==
  ASSUME IInv, CInv, NEW e, Handling(e), Does(e), IsFiniteSet(ring), IsFiniteSet(Waiters)
  PROVE  IsFiniteSet(ring') /\ IsFiniteSet(Waiters')
  <1>0. pt \in [Conns -> Task]
    BY DEF IInv, Tasks, OpsType
  <1>1. \E x, y : ring' \subseteq ring \cup {x, y}
    <2> DEFINE Grows(x, y) == ring' \subseteq ring \cup {x, y}
    <2>1. Still(e) => Grows(0, 0)
      BY DEF Still
    <2>2. ASSUME NEW t, Resumes(e, t)
          PROVE  Grows(Op(t.phase, e.id, FdOf(t.phase, t)), 0)
      BY <2>2 DEF Resumes
    <2>3. ASSUME NEW t, Ends(e, t)
          PROVE  Grows(0, 0)
      BY <2>3 DEF Ends
    <2>4. ASSUME NEW t, NEW v, Adds(e, t, v)
          PROVE  Grows(Op("send", e.id, t.client), Op("evict", v, node[v].fd))
      BY <2>4 DEF Adds, EvictOps
    <2> HIDE DEF Grows
    <2>5. \E x, y : Grows(x, y)
      BY <2>1, <2>2, <2>3, <2>4 DEF Does
    <2> QED
      BY <2>5 DEF Grows
  <1>2. Waiters' \subseteq Waiters \cup {e.id}
    <2>1. \A d \in Conns : d # e.id => pt'[d] = pt[d]
      BY <1>0 DEF Does, Still, Resumes, Ends, Adds
    <2> QED
      BY <2>1 DEF Waiters
  <1>3. PICK x, y : ring' \subseteq ring \cup {x, y}
    BY <1>1
  <1>4. IsFiniteSet(ring \cup {x}) /\ IsFiniteSet((ring \cup {x}) \cup {y})
    BY FS_AddElement
  <1>5. ring' \subseteq (ring \cup {x}) \cup {y}
    BY <1>3
  <1>6. IsFiniteSet(Waiters \cup {e.id})
    BY FS_AddElement
  <1> QED
    BY <1>2, <1>4, <1>5, <1>6, FS_Subset

LEMMA RingStep ==
  ASSUME RInv, CInv, [Next]_vars
  PROVE  RInv'
  <1>0. IInv'
    BY NextIInv DEF RInv
  <1>1. IInv /\ armed \in Nat /\ Accepts \in Nat
    BY ServerAssumption DEF RInv, IInv, OthersType
  <1>2. Cardinality(AcceptsDone) \in Nat
    BY <1>1, AcceptsCounted
  <1>3. CASE UNCHANGED vars
    BY <1>0, <1>3 DEF vars, kernel, RInv, Waiters, AcceptsDone
  <1>4. ASSUME NEW c \in Conns, KernelAccept(c) PROVE RInv'
    <2>1. PICK f \in Fd : Post("accept", c, f)
      BY <1>4 DEF KernelAccept
    <2>2. f \in Int
      BY DEF Fd
    <2>3. Cardinality(AcceptsDone') = Cardinality(AcceptsDone) + 1
      BY <1>1, <2>1, <2>2, AcceptsPosted
    <2>4. /\ ring' = ring /\ armed' = armed - 1
          /\ pt' = [pt EXCEPT ![c].phase = "pending"] /\ pt \in [Conns -> Task]
      BY <1>1, <1>4 DEF KernelAccept, IInv, Tasks, OpsType
    <2>5. Waiters' \subseteq Waiters
      <3>1. /\ \A d \in Conns : d # c => pt'[d] = pt[d]
            /\ pt'[c].phase = "pending" /\ "pending" \notin Waiting
        BY <2>4 DEF Task, Waiting
      <3> QED
        BY <3>1 DEF Waiters
    <2>6. IsFiniteSet(Waiters')
      BY <2>5, FS_Subset DEF RInv
    <2> QED
      BY <1>0, <1>1, <1>2, <2>3, <2>4, <2>6 DEF RInv
  <1>5. ASSUME KernelAcceptFails PROVE RInv'
    <2>1. Post("accept", None, -1) /\ UNCHANGED <<ring, pt>> /\ armed' = armed - 1
      BY <1>5 DEF KernelAcceptFails
    <2>2. Cardinality(AcceptsDone') = Cardinality(AcceptsDone) + 1
      BY <1>1, <2>1, AcceptsPosted
    <2>3. Waiters' = Waiters
      BY <2>1 DEF Waiters
    <2> QED
      BY <1>0, <1>1, <1>2, <2>1, <2>2, <2>3 DEF RInv
  <1>6. ASSUME NEW o \in ring, Kernel(o) PROVE RInv'
    <2>1. PICK r \in Int : Complete(o, r)
      BY <1>1, <1>6, KernelDoes
    <2>2. o.kind \in OpKinds /\ o.id \in Conns /\ o.kind # "accept"
      BY <1>1, QueueSet DEF OpKinds, Waiting
    <2>3. Cardinality(AcceptsDone') = Cardinality(AcceptsDone) + 0
      BY <1>1, <2>1, <2>2, AcceptsPosted DEF Complete
    <2>4. armed' = armed /\ pt' = pt /\ ring' \subseteq ring
      BY <1>1, <1>6, <2>1, KernelDoes DEF ServerKept, Complete
    <2>5. Waiters' = Waiters /\ IsFiniteSet(ring')
      BY <2>4, FS_Subset DEF Waiters, RInv
    <2> QED
      BY <1>0, <1>1, <1>2, <2>3, <2>4, <2>5 DEF RInv
  <1>7. ASSUME ~aborted, Handle PROVE RInv'
    <2> DEFINE e == Head(cq)
    <2>1. Handling(e) /\ Does(e)
      BY <1>1, <1>7, HandleDoes
    <2>2. armed' = armed \/ (e.kind = "accept" /\ armed' = armed + 1)
      BY <1>1, <1>7, Rearms
    <2> HIDE DEF e
    <2>3. /\ Cardinality(AcceptsDone') \in Nat
          /\ Cardinality(AcceptsDone') <=
               Cardinality(AcceptsDone) - (IF e.kind = "accept" THEN 1 ELSE 0)
      BY <1>1, <2>1, AcceptsHandled
    <2>4. IsFiniteSet(ring') /\ IsFiniteSet(Waiters')
      BY <1>1, <2>1, DoesFinite DEF RInv
    <2> QED
      BY <1>0, <1>1, <1>2, <2>2, <2>3, <2>4 DEF RInv
  <1> QED
    BY <1>3, <1>4, <1>5, <1>6, <1>7 DEF Next, Step, Rest

(* However many connections and files there are, what the server has in    *)
(* flight is at most an accept per slot, one operation per waiting         *)
(* connection, and the closes of evicted files.                            *)
THEOREM InFlightBounded == Spec => []RingBound
  <1>1. Init => RInv
    <2> SUFFICES ASSUME Init PROVE RInv
      OBVIOUS
    <2>1. IInv
      BY InitIInv
    <2>2. ring = {} /\ cq = <<>> /\ armed = Accepts /\ \A c \in Conns : pt[c].phase = "none"
      BY DEF Init, NoTask
    <2>3. Waiters = {} /\ AcceptsDone = {}
      BY <2>2 DEF Waiters, Waiting, AcceptsDone
    <2>4. IsFiniteSet({}) /\ Cardinality({}) = 0 /\ Accepts \in Nat
      BY FS_EmptySet, ServerAssumption
    <2> QED
      BY <2>1, <2>2, <2>3, <2>4 DEF RInv
  <1>2. RInv /\ GInv /\ [Next]_vars => RInv'
    BY RingStep DEF GInv
  <1>3. RInv => RingBound
    <2> SUFFICES ASSUME RInv PROVE RingBound
      OBVIOUS
    <2> DEFINE W == Waiters
               E == {o \in ring : o.kind = "evict"}
               R == {o \in ring : o.kind # "evict"}
               f == [o \in R |-> o.id]
    <2>1. IsFiniteSet(W) /\ IsFiniteSet(ring) /\ IInv
      BY DEF RInv
    <2>2. /\ \A o \in R : o.id \in W
          /\ \A o, q \in R : o.id = q.id => o = q
      <3>1. \A o \in R : Awaited(o)
        BY <2>1, QueueSet DEF Awaited, OpKinds, Waiting
      <3> QED
        BY <2>1, <3>1, QueueSet DEF Waiters
    <2>3. ring = R \cup E /\ R \cap E = {} /\ R \subseteq ring /\ E \subseteq ring
      OBVIOUS
    <2> HIDE DEF W, R, E
    <2>4. f \in [R -> W] /\ \A o, q \in R : f[o] = f[q] => o = q
      BY <2>2
    <2> HIDE DEF f
    <2>5. f \in Injection(R, W)
      BY <2>4 DEF Injection, IsInjective
    <2>6. /\ IsFiniteSet(R) /\ IsFiniteSet(E) /\ Cardinality(R) <= Cardinality(W)
      BY <2>1, <2>3, <2>5, FS_Injection, FS_Subset
    <2>7. Cardinality(ring) = Cardinality(R) + Cardinality(E)
      <3>1. Cardinality({}) = 0 /\ Cardinality(R) \in Nat /\ Cardinality(E) \in Nat
        BY <2>6, FS_EmptySet, FS_CardinalityType
      <3>2. Cardinality(R \cup E) =
              Cardinality(R) + Cardinality(E) - Cardinality(R \cap E)
        BY <2>6, FS_Union
      <3>3. Cardinality(R \cap E) = 0
        BY <2>3, <3>1
      <3> QED
        BY <2>3, <3>1, <3>2, <3>3
    <2>8. /\ armed + Cardinality(AcceptsDone) <= Accepts /\ Cardinality(AcceptsDone) \in Nat
          /\ armed \in Nat /\ Accepts \in Nat
          /\ Cardinality(R) \in Nat /\ Cardinality(E) \in Nat /\ Cardinality(W) \in Nat
      BY <2>1, <2>6, AcceptsCounted, ServerAssumption, FS_CardinalityType DEF RInv, IInv, OthersType
    <2>9. armed + Cardinality(ring) <= Accepts + Cardinality(W) + Cardinality(E)
      BY <2>6, <2>7, <2>8
    <2> QED
      BY <2>9 DEF RingBound, W, E, Waiters
  <1> QED
    BY <1>1, <1>2, <1>3, CacheInductive, PTL DEF Spec

-----------------------------------------------------------------------------
(* What the clients receive.  A response none of whose operations failed   *)
(* is the header of the file, then the file, of every response in order    *)
(* and nothing else: however many responses are in flight at once,         *)
(* whatever the order in which the kernel executes their operations, and   *)
(* whichever of the others fail.                                           *)
(*                                                                         *)
(* It is so until the first eviction, for files that fit the pipe and      *)
(* splices that are not cut short: a fill reads from the start of the file *)
(* again, so of a longer file, or after a short splice, the client         *)
(* receives something else.                                                *)

\* No splice takes less than it could, and no file more than one.
WholeSplices ==
  /\ \A p \in Paths : Sizes[p] <= SpliceMax
  /\ "fill" \notin Shorts /\ "drain" \notin Shorts

\* The phases in which nothing has been sent.
Fresh == Early \cup {"dropped", "rejected", "unanswered"}
Finished == {"close", "closed", "kept"}

\* The body a task owes, and a client that has its header.
Whole(t) == Contents(t.path, Sizes[t.path])
Headed(t, o) == o.hdr = HdrLen /\ o.len = Sizes[t.path]

\* What a client has received, o, and its pipe holds, p, by the phase of the
\* task t that serves it.
Stage(t, o, p) ==
  /\ t.phase \in Fresh => o.len = -1 /\ o.hdr = 0 /\ o.body = <<>> /\ p = <<>>
  /\ t.clean =>
       /\ t.phase = "send" =>
            /\ t.file.ok /\ o.body = <<>> /\ p = <<>>
            /\ o.len = -1 \/ o.len = Sizes[t.path]
       /\ t.phase = "fill" =>
            /\ t.file.ok /\ Headed(t, o) /\ o.body = <<>>
            /\ t.piped /\ t.nbytes = Sizes[t.path] /\ t.in_pipe = 0
       /\ t.phase = "drain" =>
            /\ Headed(t, o) /\ (o.body = <<>> \/ o.body = Whole(t))
            /\ t.nbytes = 0 /\ t.in_pipe = Sizes[t.path]
       /\ t.phase \in Finished => t.path \in Paths /\ Headed(t, o) /\ o.body = Whole(t)

\* The same while the operation of the phase is in flight, and once it has
\* completed with result r.
Before(k, t, o, p) ==
  /\ k = "send" => o.hdr + t.left = HdrLen
  /\ k = "fill" => p = <<>>
  /\ k = "drain" => o.body = <<>> /\ p = Whole(t)
After(k, r, t, o, p) ==
  /\ k = "send" => o.hdr + t.left - r = HdrLen /\ o.len = Sizes[t.path]
  /\ k = "fill" => r = Sizes[t.path] /\ p = Whole(t)
  /\ k = "drain" => r = Sizes[t.path] /\ o.body = Whole(t)

\* What holds of the responses.
Delivery ==
  /\ \A c \in Conns : Stage(pt[c], out[c], pipe[c])
  /\ \A o \in ring : Awaited(o) /\ pt[o.id].clean =>
       Before(o.kind, pt[o.id], out[o.id], pipe[o.id])
  /\ \A q \in Queued : Awaited(q) /\ q.res >= 0 /\ pt[q.id].clean =>
       After(q.kind, q.res, pt[q.id], out[q.id], pipe[q.id])

-----------------------------------------------------------------------------
(* How the handlers advance a response.                                    *)

Same(u, t) == t.path = u.path /\ t.file = u.file /\ (t.clean => u.clean)

\* The completion e takes task u to phase k with the other fields of t.
Moves(e, u, t, k) ==
  \/ u.phase \in Early /\ k \in Fresh
  \/ u.phase \in Early /\ k = "send" /\ t.left = HdrLen /\ (t.clean => t.file.ok)
  \/ /\ e.kind = "send" /\ k = "send" /\ Same(u, t)
     /\ e.res >= 0 /\ t.left = u.left - e.res
  \/ /\ e.kind = "send" /\ k = "fill" /\ Same(u, t)
     /\ t.nbytes = u.file.size % Modulus /\ t.in_pipe = 0
     /\ t.clean => t.piped /\ e.res >= 0 /\ u.left = e.res
  \/ /\ e.kind = "fill" /\ k = "drain" /\ Same(u, t) /\ e.res >= 0
     /\ t.nbytes = (u.nbytes - e.res) % Modulus /\ t.in_pipe = u.in_pipe + e.res
  \/ /\ e.kind = "drain" /\ k = "fill" /\ Same(u, t) /\ e.res >= 0
     /\ u.in_pipe # e.res \/ u.nbytes # 0
  \/ /\ k \in Finished /\ t.path = u.path
     /\ t.clean => u.clean /\ (e.kind = "close" \/ (e.kind = "drain" /\ e.res >= 0))

Advances(e) ==
  \/ UNCHANGED <<pt, ring>>
  \/ /\ e.id \in Conns
     /\ pt' = [pt EXCEPT ![e.id] = pt'[e.id]]
     /\ Moves(e, pt[e.id], pt'[e.id], pt'[e.id].phase)

(* PT_WAIT changes the phase and nothing else.                             *)
LEMMA PhaseOnly ==
  ASSUME NEW t \in Task, NEW k
  PROVE  LET u == [t EXCEPT !.phase = k]
         IN  /\ u.phase = k /\ u.path = t.path /\ u.file = t.file
             /\ u.left = t.left /\ u.nbytes = t.nbytes /\ u.in_pipe = t.in_pipe
             /\ u.piped = t.piped /\ u.clean = t.clean
  BY DEF Task

LEMMA MovesOn ==
  ASSUME IInv, NEW e, e.id \in Conns, NEW t \in Task, NEW k,
         pt' = [pt EXCEPT ![e.id] = [t EXCEPT !.phase = k]],
         Moves(e, pt[e.id], t, k)
  PROVE  Advances(e)
  <1> DEFINE u == [t EXCEPT !.phase = k]
  <1>1. /\ u.phase = k /\ u.path = t.path /\ u.file = t.file
        /\ u.left = t.left /\ u.nbytes = t.nbytes /\ u.in_pipe = t.in_pipe
        /\ u.piped = t.piped /\ u.clean = t.clean
    BY PhaseOnly
  <1>2. pt' = [pt EXCEPT ![e.id] = u] /\ pt \in [Conns -> Task]
    BY DEF IInv, Tasks, OpsType
  <1> HIDE DEF u
  <1>3. pt'[e.id] = u
    BY <1>2
  <1>4. Moves(e, pt[e.id], u, u.phase)
    BY <1>1, ZenonT(30) DEF Moves, Same
  <1> QED
    BY <1>2, <1>3, <1>4 DEF Advances

LEMMA WaitsMove ==
  ASSUME IInv, NEW e, Handling(e), e.kind \in Waiting,
         NEW t \in Task, NEW k, NEW f, Await(e.id, t, k, f), Moves(e, pt[e.id], t, k)
  PROVE  Advances(e)
  BY OwnedTurn, MovesOn DEF Await

(* The header of a file that could not be opened is not a clean response.  *)
LEMMA RespondMoves ==
  ASSUME NEW e, NEW u, u.phase \in Early, NEW t \in Task
  PROVE  Responding(t) \in Task /\ Moves(e, u, Responding(t), "send")
  <1> DEFINE b == t.clean /\ t.file.ok
             x == [t EXCEPT !.left = HdrLen, !.clean = b]
  <1>1. Responding(t) = x /\ Responding(t) \in Task
    BY PreparedTasks, Zenon DEF Responding
  <1>2. b => t.file.ok
    OBVIOUS
  <1> HIDE DEF b
  <1>3. x.left = HdrLen /\ x.clean = b /\ x.file = t.file
    BY DEF Task
  <1> HIDE DEF x
  <1> QED
    BY <1>1, <1>2, <1>3, Zenon DEF Moves

LEMMA HitMoves ==
  ASSUME IInv, NEW e, Handling(e), e.kind \in {"recv", "openat", "statx"},
         NEW t \in Task, t.path \in Paths, OpenHit(e.id, t)
  PROVE  Advances(e)
  <1>1. e.kind \in Waiting /\ e.kind \in Early
    BY DEF Waiting, Early
  <1>2. /\ pt[e.id].phase = e.kind /\ OthersType /\ Found(t)
    BY <1>1, OwnedTurn DEF OpenHit
  <1>3. Copied(t) \in Task
    BY <1>2, CopiedTask
  <1>4. CASE Respond(e.id, Copied(t))
    <2> DEFINE w == Copied(t)
               x == Responding(w)
    <2>1. Await(e.id, x, "send", w.client)
      BY <1>4 DEF Respond
    <2>2. x \in Task /\ Moves(e, pt[e.id], x, "send")
      BY <1>1, <1>2, <1>3, RespondMoves
    <2> HIDE DEF w, x
    <2> QED
      BY <1>1, <2>1, <2>2, WaitsMove
  <1> QED
    BY <1>4 DEF OpenHit, Advances

LEMMA AcceptAdvances ==
  ASSUME IInv, NEW e, Handling(e), HandleAccept(e)
  PROVE  Advances(e)
  <1>1. e.kind = "accept" /\ e \in Completion /\ WellFormed(e)
        /\ (e.res >= 0 => pt[e.id].phase = "pending")
    <2>1. e \in Queued
      BY QueuedHandled
    <2> QED
      BY <2>1, QueueSet DEF HandleAccept
  <1>2. CASE e.res < 0
    BY <1>2 DEF HandleAccept, Advances
  <1>3. CASE ~(e.res < 0)
    <2>1. /\ e.res >= 0 /\ e.id \in Conns /\ e.res \in Fd /\ pt[e.id].phase = "pending"
          /\ pt[e.id] \in Task
      BY <1>1, <1>3 DEF Completion, WellFormed, IInv, Tasks, OpsType
    <2> DEFINE t == [pt[e.id] EXCEPT !.client = e.res]
    <2>2. t \in Task
      BY <2>1 DEF Task
    <2>3. pt' = [pt EXCEPT ![e.id] = [t EXCEPT !.phase = "recv"]]
      BY <1>3 DEF HandleAccept, Await
    <2> HIDE DEF t
    <2>4. Moves(e, pt[e.id], t, "recv")
      BY <2>1 DEF Moves, Early, Fresh
    <2> QED
      BY <2>1, <2>2, <2>3, <2>4, MovesOn
  <1> QED
    BY <1>2, <1>3

LEMMA RecvAdvances ==
  ASSUME IInv, NEW e, Handling(e), HandleRecv(e)
  PROVE  Advances(e)
  <1> DEFINE c == e.id
  <1>1. e.kind = "recv" /\ e.kind \in Waiting
    BY DEF HandleRecv, Waiting
  <1>2. /\ c \in Conns /\ pt[c] \in Task /\ pt[c].phase = "recv" /\ buf[c] \in Received
    BY <1>1, OwnedTurn DEF OthersType
  <1>3. \A t, k : k \in Fresh => Moves(e, pt[c], t, k)
    BY <1>2 DEF Moves, Early
  <1>4. /\ "dropped" \in Fresh /\ "rejected" \in Fresh /\ "unanswered" \in Fresh
        /\ "recv" \in Fresh /\ "openat" \in Fresh
    BY DEF Fresh, Early
  <1>5. ASSUME NEW how \in {"dropped", "rejected", "unanswered"}, End(c, how)
        PROVE  Advances(e)
    <2>1. pt' = [pt EXCEPT ![c] = [pt[c] EXCEPT !.phase = how]]
      BY <1>5 DEF End
    <2> QED
      BY <1>2, <1>3, <1>4, <2>1, MovesOn
  <1>6. CASE Await(c, pt[c], "recv", pt[c].client)
    BY <1>1, <1>2, <1>3, <1>4, <1>6, WaitsMove
  <1>7. ASSUME NEW g \in Garbage, Target(buf[c]) # None,
               \/ OpenHit(c, Dispatched(pt[c], buf[c], g))
               \/ Await(c, Dispatched(pt[c], buf[c], g), "openat", 0)
        PROVE  Advances(e)
    <2> DEFINE t == Dispatched(pt[c], buf[c], g)
    <2>1. t \in Task /\ t.path \in Paths
      BY <1>2, <1>7, DispatchedTask
    <2>2. OpenHit(c, t) \/ Await(c, t, "openat", 0)
      BY <1>7
    <2> HIDE DEF t
    <2> QED
      BY <1>1, <1>3, <1>4, <2>1, <2>2, WaitsMove, HitMoves
  <1> QED
    BY <1>5, <1>6, <1>7 DEF HandleRecv

LEMMA OpenatAdvances ==
  ASSUME IInv, NEW e, Handling(e), HandleOpenat(e)
  PROVE  Advances(e)
  <1> DEFINE c == e.id
             t == Opened(pt[c], e.res)
  <1>1. e.kind = "openat" /\ e.kind \in Waiting
    BY DEF HandleOpenat, Waiting
  <1>2. /\ pt[c] \in Task /\ pt[c].phase = "openat"
        /\ pt[c].path \in Paths /\ e.res \in Int /\ (e.res >= 0 => e.res \in Fd)
    BY <1>1, OwnedTurn
  <1>3. t \in Task /\ t.path = pt[c].path
    BY <1>2, OpenedTasks
  <1>4. OpenHit(c, t) \/ Await(c, t, "statx", t.file.fd)
    BY DEF HandleOpenat
  <1> HIDE DEF t
  <1>5. Moves(e, pt[c], t, "statx")
    BY <1>2 DEF Moves, Early, Fresh
  <1> QED
    BY <1>1, <1>2, <1>3, <1>4, <1>5, HitMoves, WaitsMove

LEMMA StatxAdvances ==
  ASSUME IInv, NEW e, Handling(e), HandleStatx(e)
  PROVE  Advances(e)
  <1> DEFINE c == e.id
             t == Stated(pt[c], e.res)
             x == Responding(t)
  <1>1. e.kind = "statx" /\ e.kind \in Waiting
    BY DEF HandleStatx, Waiting
  <1>2. /\ c \in Conns /\ pt[c] \in Task /\ pt[c].phase = "statx"
        /\ pt[c].path \in Paths /\ e.res \in Int
    BY <1>1, OwnedTurn
  <1>3. t \in Task /\ t.path = pt[c].path
    BY <1>2, OpenedTasks
  <1>4. x \in Task /\ Moves(e, pt[c], x, "send")
    BY <1>2, <1>3, RespondMoves DEF Early
  <1>5. OpenHit(c, t) \/ pt' = [pt EXCEPT ![c] = [x EXCEPT !.phase = "send"]]
    BY Zenon DEF HandleStatx
  <1> HIDE DEF t, x
  <1> QED
    BY <1>1, <1>2, <1>3, <1>4, <1>5, HitMoves, MovesOn

(* async_io_sendfile, once the header is sent or has failed.               *)
LEMMA SendfileMoves ==
  ASSUME IInv, NEW e, Handling(e), e.kind = "send", NEW t \in Task,
         t.path = pt[e.id].path, t.file = pt[e.id].file,
         t.clean => pt[e.id].clean /\ e.res >= 0 /\ pt[e.id].left = e.res,
         AfterHeader(e.id, t)
  PROVE  Advances(e)
  <1>1. CASE Crash(t) /\ UNCHANGED <<fds, pt, ring>>
    BY <1>1 DEF Advances
  <1>2. CASE StartSendfile(e.id, t)
    <2>1. ASSUME NEW b \in BOOLEAN, Await(e.id, Spliced(t, b), "fill", t.file.fd)
          PROVE  Advances(e)
      <3> DEFINE x == Spliced(t, b)
                 n == t.file.size % Modulus
                 y == t.clean /\ b
                 z == 0
      <3>1. x \in Task /\ x.path = t.path /\ x.file = t.file
        BY PreparedTasks
      <3>2. x.nbytes = n /\ x.in_pipe = z /\ x.piped = b /\ x.clean = y
        <4>1. x = [t EXCEPT !.left = z, !.nbytes = n, !.in_pipe = z, !.piped = b, !.clean = y]
          BY Zenon DEF Spliced
        <4> HIDE DEF x, n, y, z
        <4> QED
          BY <4>1 DEF Task
      <3> HIDE DEF x
      <3>3. x.clean => t.clean /\ x.piped
        BY <3>2, Zenon
      <3>4. Moves(e, pt[e.id], x, "fill")
        BY <3>1, <3>2, <3>3 DEF Moves, Same
      <3>5. e.kind \in Waiting
        BY DEF Waiting
      <3>6. Await(e.id, x, "fill", t.file.fd)
        BY <2>1 DEF x
      <3> QED
        BY <3>1, <3>4, <3>5, <3>6, WaitsMove
    <2> QED
      BY <1>2, <2>1 DEF StartSendfile
  <1> QED
    BY <1>1, <1>2 DEF AfterHeader

LEMMA SendAdvances ==
  ASSUME IInv, NEW e, Handling(e), HandleSend(e)
  PROVE  Advances(e)
  <1> DEFINE c == e.id
  <1>1. e.kind = "send" /\ e.kind \in Waiting
    BY DEF HandleSend, Waiting
  <1>2. /\ c \in Conns /\ pt[c] \in Task /\ e.res \in Int
    BY <1>1, OwnedTurn
  <1>3. CASE AfterHeader(c, [pt[c] EXCEPT !.clean = FALSE])
    <2> DEFINE t == [pt[c] EXCEPT !.clean = FALSE]
    <2>1. t \in Task /\ t.path = pt[c].path /\ t.file = pt[c].file /\ ~t.clean
      BY <1>2 DEF Task
    <2> HIDE DEF t
    <2> QED
      BY <1>1, <1>3, <2>1, SendfileMoves DEF t
  <1>4. CASE e.res >= 0 /\ HeaderDone(pt[c], e.res) /\ AfterHeader(c, pt[c])
    BY <1>1, <1>2, <1>4, SendfileMoves DEF HeaderDone
  <1>5. CASE /\ e.res >= 0
             /\ Await(c, [pt[c] EXCEPT !.left = @ - e.res], "send", pt[c].client)
    <2> DEFINE n == pt[c].left - e.res
               t == [pt[c] EXCEPT !.left = n]
    <2>1. n \in Int
      BY <1>2 DEF Task
    <2>2. Await(c, t, "send", pt[c].client)
      BY <1>5
    <2> HIDE DEF n
    <2>3. /\ t \in Task /\ t.path = pt[c].path /\ t.file = pt[c].file
          /\ t.clean = pt[c].clean /\ t.left = n
      BY <1>2, <2>1 DEF Task
    <2> HIDE DEF t
    <2>4. Moves(e, pt[c], t, "send")
      BY <1>1, <1>5, <2>3 DEF Moves, Same, n
    <2> QED
      BY <1>1, <2>2, <2>3, <2>4, WaitsMove
  <1> QED
    BY <1>3, <1>4, <1>5 DEF HandleSend

(* What is left of an ended protothread remembers whether it was clean.    *)
LEMMA EndedClean ==
  ASSUME NEW t \in Task, NEW how \in {"closed", "kept"}
  PROVE  LET u == Ended(t, how)
         IN  u \in Task /\ u.phase = how /\ u.path = t.path /\ u.clean = t.clean
  <1>1. 0 \in Fd
    BY ServerAssumption DEF Fd
  <1>2. NoTask \in Task
    BY <1>1 DEF NoTask, NoFile, File, Task, Phases
  <1>3. t.path \in Paths \cup {None} /\ t.clean \in BOOLEAN /\ t.test \in BOOLEAN
    BY DEF Task
  <1>4. Ended(t, how) = [NoTask EXCEPT !.phase = how, !.path = t.path,
                                       !.test = t.test, !.clean = t.clean]
    BY Zenon DEF Ended
  <1>5. Ended(t, how) \in Task
    BY EndedTask
  <1> QED
    BY <1>2, <1>3, <1>4, <1>5 DEF Task

LEMMA EndsMove ==
  ASSUME IInv, NEW e, e.id \in Conns, NEW t \in Task, NEW how \in {"closed", "kept"},
         pt' = [pt EXCEPT ![e.id] = Ended(t, how)],
         t.path = pt[e.id].path,
         t.clean => pt[e.id].clean /\ (e.kind = "close" \/ (e.kind = "drain" /\ e.res >= 0))
  PROVE  Advances(e)
  <1> DEFINE u == Ended(t, how)
  <1>1. u \in Task /\ u.phase = how /\ u.path = t.path /\ u.clean = t.clean
    BY EndedClean
  <1>2. pt' = [pt EXCEPT ![e.id] = u] /\ pt \in [Conns -> Task]
    BY DEF IInv, Tasks, OpsType
  <1> HIDE DEF u
  <1>3. pt'[e.id] = u
    BY <1>2
  <1>4. Moves(e, pt[e.id], u, u.phase)
    BY <1>1 DEF Moves, Finished
  <1> QED
    BY <1>2, <1>3, <1>4 DEF Advances

(* Only a drain that did not fail ends a clean response.                   *)
LEMMA AfterBodyMoves ==
  ASSUME IInv, NEW e, Handling(e), e.kind \in {"fill", "drain"}, NEW t \in Task,
         t.path = pt[e.id].path,
         t.clean => pt[e.id].clean /\ e.kind = "drain" /\ e.res >= 0,
         AfterBody(e.id, t)
  PROVE  Advances(e)
  <1>1. e.kind \in Waiting
    BY DEF Waiting
  <1>2. e.id \in Conns
    BY <1>1, OwnedTurn
  <1>3. CASE Crash(t) /\ UNCHANGED <<pt, ring>>
    BY <1>3 DEF Advances
  <1>4. CASE Await(e.id, t, "close", t.client)
    <2>1. Moves(e, pt[e.id], t, "close")
      BY DEF Moves, Finished
    <2> QED
      BY <1>1, <1>4, <2>1, WaitsMove
  <1>5. CASE pt' = [pt EXCEPT ![e.id] = Ended(t, "kept")]
    BY <1>2, <1>5, EndsMove
  <1> QED
    BY <1>3, <1>4, <1>5 DEF AfterBody

LEMMA SpliceFailedMoves ==
  ASSUME IInv, NEW e, Handling(e), e.kind \in {"fill", "drain"}, SpliceFailed(e.id)
  PROVE  Advances(e)
  <1> DEFINE t == [pt[e.id] EXCEPT !.clean = FALSE]
  <1>1. pt[e.id] \in Task
    BY OwnedTurn DEF Waiting
  <1>2. t \in Task /\ t.path = pt[e.id].path /\ ~t.clean
    BY <1>1 DEF Task
  <1>3. AfterBody(e.id, t)
    BY DEF SpliceFailed
  <1> HIDE DEF t
  <1> QED
    BY <1>2, <1>3, AfterBodyMoves

LEMMA FillAdvances ==
  ASSUME IInv, NEW e, Handling(e), HandleFill(e)
  PROVE  Advances(e)
  <1> DEFINE c == e.id
  <1>1. e.kind = "fill" /\ e.kind \in Waiting
    BY DEF HandleFill, Waiting
  <1>2. pt[c] \in Task /\ e.res \in Int
    BY <1>1, OwnedTurn
  <1>3. CASE SpliceFailed(c)
    BY <1>1, <1>3, SpliceFailedMoves
  <1>4. CASE ~(e.res < 0) /\ Await(c, Filled(pt[c], e.res), "drain", pt[c].client)
    <2> DEFINE n == (pt[c].nbytes - e.res) % Modulus
               m == pt[c].in_pipe + e.res
               t == [pt[c] EXCEPT !.nbytes = n, !.in_pipe = m]
    <2>1. n \in Int /\ m \in Int /\ e.res >= 0
      <3>1. Modulus \in Nat /\ Modulus > 0
        BY ServerAssumption
      <3> QED
        BY <1>2, <1>4, <3>1 DEF Task
    <2>2. Await(c, t, "drain", pt[c].client)
      BY <1>4 DEF Filled
    <2> HIDE DEF n, m
    <2>3. /\ t \in Task /\ t.path = pt[c].path /\ t.file = pt[c].file
          /\ t.clean = pt[c].clean /\ t.nbytes = n /\ t.in_pipe = m
      BY <1>2, <2>1 DEF Task
    <2> HIDE DEF t
    <2>4. Moves(e, pt[c], t, "drain")
      BY <1>1, <2>1, <2>3 DEF Moves, Same, n, m
    <2> QED
      BY <1>1, <2>2, <2>3, <2>4, WaitsMove
  <1> QED
    BY <1>3, <1>4 DEF HandleFill

LEMMA DrainAdvances ==
  ASSUME IInv, NEW e, Handling(e), HandleDrain(e)
  PROVE  Advances(e)
  <1> DEFINE c == e.id
             n == pt[c].in_pipe - e.res
             t == [pt[c] EXCEPT !.in_pipe = n]
  <1>1. e.kind = "drain" /\ e.kind \in Waiting
    BY DEF HandleDrain, Waiting
  <1>2. pt[c] \in Task /\ e.res \in Int
    BY <1>1, OwnedTurn
  <1>3. n \in Int /\ (n # 0 => pt[c].in_pipe # e.res)
    BY <1>2 DEF Task
  <1>4. \/ SpliceFailed(c)
        \/ e.res >= 0 /\ AfterBody(c, t)
        \/ /\ e.res >= 0 /\ (t.in_pipe # 0 \/ t.nbytes # 0)
           /\ Await(c, t, "fill", t.file.fd)
    BY DEF HandleDrain
  <1> HIDE DEF n
  <1>5. /\ t \in Task /\ t.path = pt[c].path /\ t.file = pt[c].file
        /\ t.clean = pt[c].clean /\ t.in_pipe = n /\ t.nbytes = pt[c].nbytes
    BY <1>2, <1>3 DEF Task
  <1> HIDE DEF t
  <1>6. CASE SpliceFailed(c)
    BY <1>1, <1>6, SpliceFailedMoves
  <1>7. CASE e.res >= 0 /\ AfterBody(c, t)
    BY <1>1, <1>5, <1>7, AfterBodyMoves
  <1>8. CASE /\ e.res >= 0 /\ (t.in_pipe # 0 \/ t.nbytes # 0)
             /\ Await(c, t, "fill", t.file.fd)
    <2>1. Moves(e, pt[c], t, "fill")
      BY <1>1, <1>3, <1>5, <1>8 DEF Moves, Same
    <2> QED
      BY <1>1, <1>5, <1>8, <2>1, WaitsMove
  <1> QED
    BY <1>4, <1>6, <1>7, <1>8

LEMMA CloseAdvances ==
  ASSUME IInv, NEW e, Handling(e), HandleClose(e)
  PROVE  Advances(e)
  <1>1. e.kind = "close" /\ e.kind \in Waiting
    BY DEF HandleClose, Waiting
  <1>2. e.id \in Conns /\ pt[e.id] \in Task
    BY <1>1, OwnedTurn
  <1> QED
    BY <1>1, <1>2, EndsMove DEF HandleClose

LEMMA HandleAdvances ==
  ASSUME IInv, Handle
  PROVE  ~aborted => Handling(Head(cq)) /\ Advances(Head(cq))
  <1> SUFFICES ASSUME ~aborted PROVE Handling(Head(cq)) /\ Advances(Head(cq))
    OBVIOUS
  <1> DEFINE e == Head(cq)
  <1>1. Handling(e)
    BY DEF Handle, Handling
  <1>2. HandleEvict(e) => Advances(e)
    BY DEF HandleEvict, Advances
  <1> QED
    BY <1>1, <1>2, AcceptAdvances, RecvAdvances, OpenatAdvances, StatxAdvances,
       SendAdvances, FillAdvances, DrainAdvances, CloseAdvances DEF Handle

-----------------------------------------------------------------------------
(* The contents of files.                                                  *)

Output == [hdr : Nat, len : Int, body : Seq(Paths \X Nat)]

(* A file read to its end, and none of it.                                 *)
LEMMA ContentsWhole ==
  ASSUME NEW p, NEW n \in Nat
  PROVE  /\ Len(Contents(p, n)) = n
         /\ <<>> \o Contents(p, n) = Contents(p, n)
         /\ SubSeq(Contents(p, n), 1, n) = Contents(p, n)
         /\ SubSeq(Contents(p, n), n + 1, n) = <<>>
         /\ Contents(p, 0) = <<>>
  <1> DEFINE s == Contents(p, n)
  <1>1. /\ s \in Seq({p} \X Nat) /\ Len(s) = n
    <2>1. s = [i \in 1..n |-> <<p, i>>]
      BY DEF Contents
    <2> HIDE DEF s
    <2>2. s \in [1..n -> {p} \X Nat]
      BY <2>1
    <2>3. s \in Seq({p} \X Nat)
      BY <2>2
    <2>4. DOMAIN s = 1..n
      BY <2>1
    <2> QED
      BY <2>3, <2>4, LenProperties
  <1> HIDE DEF s
  <1>2. <<>> \o s = s
    BY <1>1, ConcatEmptySeq
  <1>3. SubSeq(s, 1, n) = s
    BY <1>1, SubSeqFull
  <1>4. SubSeq(s, n + 1, n) = <<>>
    BY <1>1, SubSeqEmpty
  <1>5. Contents(p, 0) = <<>>
    BY DEF Contents
  <1> QED
    BY <1>1, <1>2, <1>3, <1>4, <1>5 DEF s

(* Nothing received is the beginning of any file.                          *)
LEMMA NothingReceived ==
  ASSUME NEW p PROVE Contents(p, Len(<<>>)) = <<>>
  BY DEF Contents

-----------------------------------------------------------------------------
(* A handler keeps what holds of the response it advances.                 *)

LEMMA MovesKeep ==
  ASSUME WholeSplices, NEW e, e.res \in Int, NEW u \in Task, NEW t \in Task,
         NEW o \in Output, NEW p,
         Moves(e, u, t, t.phase), e.kind \in Waiting => u.phase = e.kind,
         Stage(u, o, p), e.res >= 0 /\ u.clean => After(e.kind, e.res, u, o, p),
         u.phase \in Serving => u.path \in Paths,
         t.phase \in Responds /\ t.file.ok => t.file.size = Sizes[t.path]
  PROVE  Stage(t, o, p) /\ (t.clean => Before(t.phase, t, o, p))
  <1> DEFINE k == t.phase
             Goal == Stage(t, o, p) /\ (t.clean => Before(t.phase, t, o, p))
  <1>1. /\ "send" \notin Fresh \cup Finished /\ "fill" \notin Fresh \cup Finished
        /\ "drain" \notin Fresh \cup Finished /\ Fresh \cap Finished = {}
        /\ Fresh \cap Responds = {} /\ Finished \cap Responds = {}
        /\ {"send", "fill", "drain", "close"} \subseteq Waiting \cap Serving
        /\ Responds = {"send", "fill", "drain"} /\ Early \subseteq Fresh
        /\ "close" \in Finished
    BY DEF Fresh, Early, Finished, Waiting, Serving, Responds
  <1>2. \A q \in Paths : Sizes[q] \in Nat /\ Sizes[q] % Modulus = Sizes[q] /\ Modulus \in Nat
    BY ServerAssumption DEF WholeSplices
  <1>3. 0 % Modulus = 0
    BY ServerAssumption
  <1>4. CASE u.phase \in Early /\ k \in Fresh
    BY <1>1, <1>4 DEF Stage, Before
  <1>5. CASE u.phase \in Early /\ k = "send" /\ t.left = HdrLen /\ (t.clean => t.file.ok)
    <2>1. /\ o.hdr = 0 /\ o.body = <<>> /\ p = <<>> /\ o.len = -1
      BY <1>1, <1>5 DEF Stage
    <2>2. o.hdr + t.left = HdrLen
      BY <1>5, <2>1, ServerAssumption
    <2> QED
      BY <1>1, <1>5, <2>1, <2>2 DEF Stage, Before
  <1>6. CASE /\ e.kind = "send" /\ k = "send" /\ Same(u, t)
             /\ e.res >= 0 /\ t.left = u.left - e.res
    <2>1. t.clean => /\ u.clean /\ u.path = t.path /\ u.file = t.file /\ u.phase = "send"
                     /\ o.hdr + u.left - e.res = HdrLen
      BY <1>1, <1>6 DEF Same, After
    <2>2. t.clean => o.hdr + t.left = HdrLen
      BY <1>6, <2>1 DEF Task, Output
    <2> QED
      BY <1>1, <1>6, <2>1, <2>2 DEF Stage, Before
  <1>7. CASE /\ e.kind = "send" /\ k = "fill" /\ Same(u, t)
             /\ t.nbytes = u.file.size % Modulus /\ t.in_pipe = 0
             /\ t.clean => t.piped /\ e.res >= 0 /\ u.left = e.res
    <2>1. t.clean => /\ u.clean /\ u.path = t.path /\ u.file = t.file /\ u.phase = "send"
                     /\ o.hdr + u.left - e.res = HdrLen /\ o.len = Sizes[t.path]
                     /\ t.piped /\ u.left = e.res
      BY <1>1, <1>7 DEF Same, After
    <2>2. t.clean => o.hdr = HdrLen
      BY <2>1 DEF Task, Output
    <2>3. t.clean => u.file.ok /\ o.body = <<>> /\ p = <<>> /\ t.path \in Paths
      BY <1>1, <2>1 DEF Stage
    <2>4. t.clean => t.nbytes = Sizes[t.path]
      BY <1>1, <1>2, <1>7, <2>1, <2>3
    <2> QED
      BY <1>1, <1>7, <2>1, <2>2, <2>3, <2>4 DEF Stage, Before, Headed
  <1>8. CASE /\ e.kind = "fill" /\ k = "drain" /\ Same(u, t) /\ e.res >= 0
             /\ t.nbytes = (u.nbytes - e.res) % Modulus /\ t.in_pipe = u.in_pipe + e.res
    <2>1. t.clean => /\ u.clean /\ u.path = t.path /\ u.file = t.file /\ u.phase = "fill"
                     /\ e.res = Sizes[t.path] /\ p = Whole(t)
      BY <1>1, <1>8 DEF Same, After, Whole
    <2>2. t.clean => /\ Headed(t, o) /\ o.body = <<>> /\ u.nbytes = Sizes[t.path]
                     /\ u.in_pipe = 0 /\ t.path \in Paths
      BY <1>1, <2>1 DEF Stage, Headed
    <2>3. t.clean => t.in_pipe = Sizes[t.path] /\ t.nbytes = 0
      <3>1. t.clean => u.nbytes - e.res = 0 /\ u.in_pipe + e.res = Sizes[t.path]
        BY <1>2, <2>1, <2>2
      <3> QED
        BY <1>3, <1>8, <3>1
    <2> QED
      BY <1>1, <1>8, <2>1, <2>2, <2>3 DEF Stage, Before
  <1>9. CASE /\ e.kind = "drain" /\ k = "fill" /\ Same(u, t) /\ e.res >= 0
             /\ u.in_pipe # e.res \/ u.nbytes # 0
    <2>1. t.clean => /\ u.clean /\ u.path = t.path /\ u.phase = "drain"
                     /\ e.res = Sizes[u.path]
      BY <1>1, <1>9 DEF Same, After
    <2>2. ~t.clean
      BY <1>1, <1>9, <2>1 DEF Stage
    <2> QED
      BY <1>1, <1>9, <2>2 DEF Stage
  <1>10. CASE /\ k \in Finished /\ t.path = u.path
              /\ t.clean => u.clean /\ (e.kind = "close" \/ (e.kind = "drain" /\ e.res >= 0))
    <2>1. t.clean /\ e.kind = "drain" =>
            t.path \in Paths /\ Headed(t, o) /\ o.body = Whole(t)
      BY <1>1, <1>10 DEF Stage, After, Headed, Whole
    <2>2. t.clean /\ e.kind = "close" =>
            t.path \in Paths /\ Headed(t, o) /\ o.body = Whole(t)
      BY <1>1, <1>10 DEF Stage, Headed, Whole
    <2> QED
      BY <1>1, <1>10, <2>1, <2>2 DEF Stage, Before
  <1> QED
    BY <1>4, <1>5, <1>6, <1>7, <1>8, <1>9, <1>10 DEF Moves

-----------------------------------------------------------------------------
(* The kernel keeps what holds of the responses.                           *)

\* Completing operation o with result r reaches no other response.
Carries(o, r) ==
  /\ \A d \in Conns : d # o.id => out'[d] = out[d] /\ pipe'[d] = pipe[d]
  /\ Stage(pt[o.id], out'[o.id], pipe'[o.id])
  /\ r >= 0 /\ pt[o.id].clean => After(o.kind, r, pt[o.id], out'[o.id], pipe'[o.id])

(* An operation that writes acts on the socket of its own client, one that *)
(* reads a file that could be opened on that very file.                    *)
LEMMA OwnDescriptor ==
  ASSUME HInv, ~churned, NEW o \in ring, o.kind \in Responds
  PROVE  /\ o.id \in Conns /\ pt[o.id] \in Task /\ pt[o.id].phase = o.kind
         /\ pt[o.id].path \in Paths
         /\ out[o.id] \in Output /\ pipe[o.id] \in Seq(Paths \X Nat)
         /\ o.kind \in {"send", "drain"} => fds[o.fd] = ClientOf(o.id)
         /\ o.kind = "fill" /\ pt[o.id].file.ok => fds[o.fd] = FileOf(pt[o.id].path)
         /\ o.kind = "send" /\ pt[o.id].file.ok => pt[o.id].file.size = Sizes[pt[o.id].path]
  <1> DEFINE c == o.id
  <1>1. IInv /\ CInv /\ Owned /\ OthersType
    BY DEF HInv, GInv, Sane, IInv
  <1>2. Responds \subseteq Waiting \cap Serving /\ "close" \notin Responds
        /\ "evict" \notin Responds /\ "accept" \notin Responds
    BY DEF Responds, Waiting, Serving
  <1>3. Awaited(o)
    BY <1>2 DEF Awaited
  <1>4. /\ c \in Conns /\ o.fd \in Fd /\ pt[c].phase = o.kind /\ pt[c] \in Task
        /\ out[c] \in Output /\ pipe[c] \in Seq(Paths \X Nat)
    BY <1>1, <1>3, QueueSet DEF OthersType, Output, IInv, Tasks, OpsType
  <1>5. pt[c].path \in Paths
    BY <1>1, <1>2, <1>4 DEF IInv, Tasks, PathOK
  <1>6. o.fd = FdOf(o.kind, pt[c])
    BY <1>1, <1>2 DEF CInv, RingFds
  <1>7. ASSUME o.kind \in {"send", "drain"} PROVE fds[o.fd] = ClientOf(c)
    <2>1. o.fd = pt[c].client
      BY <1>6, <1>7 DEF FdOf
    <2>2. ~Closed(c)
      BY <1>1, <1>2, <1>4, QueueSet DEF Closed, Awaited
    <2>3. Socket(c, o.fd)
      BY <1>2, <1>4, <2>1, <2>2 DEF Socket
    <2> QED
      BY <1>1, <1>4, <2>3 DEF Owned, Sockets
  <1>8. ASSUME o.kind = "fill", pt[c].file.ok PROVE fds[o.fd] = FileOf(pt[c].path)
    <2>1. o.fd = pt[c].file.fd
      BY <1>6, <1>8 DEF FdOf
    <2> QED
      BY <1>4, <1>8, <2>1, ReadsOwnFile DEF ServeSound
  <1> QED
    BY <1>4, <1>5, <1>7, <1>8, ReadsOwnFile DEF Responds

(* An operation that neither sends nor moves anything.                     *)
LEMMA NothingCarried ==
  ASSUME IInv, Delivery, NEW o \in ring, NEW r \in Int, UNCHANGED <<out, pipe>>,
         o.kind \notin Responds \/ r < 0
  PROVE  Carries(o, r)
  <1>1. o.id \in Conns
    BY InFlight
  <1>2. r >= 0 => o.kind \notin {"send", "fill", "drain"}
    BY DEF Responds
  <1> QED
    BY <1>1, <1>2 DEF Delivery, Carries, After

LEMMA SendCarries ==
  ASSUME HInv, ~churned, Delivery, NEW o \in ring, KernelSend(o)
  PROVE  \E r \in Int : Complete(o, r) /\ Carries(o, r)
  <1> DEFINE c == o.id
  <1>1. o.kind = "send" /\ o.kind \in Responds /\ pipe' = pipe /\ IInv
    BY DEF KernelSend, Responds, HInv, GInv
  <1>2. /\ c \in Conns /\ pt[c] \in Task /\ pt[c].phase = "send" /\ pt[c].path \in Paths
        /\ out[c] \in Output /\ fds[o.fd].of = c
        /\ pt[c].file.ok => pt[c].file.size = Sizes[pt[c].path]
    BY <1>1, OwnDescriptor, DescDistinct
  <1>3. CASE Complete(o, -1) /\ UNCHANGED out
    BY <1>1, <1>3, NothingCarried
  <1>4. ASSUME NEW n \in 1..pt[c].left,
               out' = [out EXCEPT ![c].hdr = @ + n, ![c].len = pt[c].file.size],
               Complete(o, n)
        PROVE  \E r \in Int : Complete(o, r) /\ Carries(o, r)
    <2> DEFINE m == out[c].hdr + n
               l == pt[c].file.size
    <2>1. /\ out \in [Conns -> Output] /\ n \in Int
      BY <1>1 DEF IInv, OthersType, Output
    <2>2. out' = [out EXCEPT ![c] = [out[c] EXCEPT !.hdr = m, !.len = l]]
      BY <1>2, <1>4, <2>1 DEF Output
    <2>3. /\ \A d \in Conns : d # c => out'[d] = out[d]
          /\ out'[c] = [out[c] EXCEPT !.hdr = m, !.len = l]
      BY <1>2, <2>1, <2>2
    <2>4. m \in Int /\ l \in Int
      BY <1>2, <2>1 DEF Output, Task, File
    <2> HIDE DEF l
    <2>5. out'[c].hdr = m /\ out'[c].len = l /\ out'[c].body = out[c].body
      BY <1>2, <2>3 DEF Output
    <2>6. Stage(pt[c], out[c], pipe[c])
          /\ (pt[c].clean => Before("send", pt[c], out[c], pipe[c]))
      BY <1>1, <1>2 DEF Delivery, Awaited
    <2>7. "send" \notin Fresh \cup Finished
      BY DEF Fresh, Early, Finished
    <2>8. pt[c].clean => l = Sizes[pt[c].path]
      BY <1>2, <2>6 DEF Stage, l
    <2>9. Stage(pt[c], out'[c], pipe'[c])
      BY <1>1, <1>2, <2>5, <2>6, <2>7, <2>8 DEF Stage
    <2>10. pt[c].clean => out'[c].hdr + pt[c].left - n = HdrLen
      <3>1. pt[c].left \in Int /\ out[c].hdr \in Int
        BY <1>2 DEF Task, Output
      <3>2. pt[c].clean => out[c].hdr + pt[c].left = HdrLen
        BY <2>6 DEF Before
      <3>3. out[c].hdr + n + pt[c].left - n = out[c].hdr + pt[c].left
        BY <2>1, <3>1
      <3> QED
        BY <2>5, <3>2, <3>3
    <2>11. pt[c].clean => After("send", n, pt[c], out'[c], pipe'[c])
      BY <2>5, <2>8, <2>10 DEF After
    <2>12. Carries(o, n)
      BY <1>1, <2>3, <2>9, <2>11 DEF Carries
    <2> QED
      BY <1>4, <2>1, <2>12
  <1> QED
    BY <1>2, <1>3, <1>4 DEF KernelSend

(* A fill takes the whole file, if none before it failed.                  *)
LEMMA FillCarries ==
  ASSUME WholeSplices, HInv, ~churned, Delivery, NEW o \in ring, KernelFill(o)
  PROVE  \E r \in Int : Complete(o, r) /\ Carries(o, r)
  <1> DEFINE c == o.id
             l == Sizes[pt[c].path]
             ask == FillRequest(pt[c])
  <1>1. o.kind = "fill" /\ o.kind \in Responds /\ out' = out /\ IInv
    BY DEF KernelFill, Responds, HInv, GInv
  <1>2. /\ c \in Conns /\ pt[c] \in Task /\ pt[c].phase = "fill" /\ pt[c].path \in Paths
        /\ pt[c].file.ok => fds[o.fd] = FileOf(pt[c].path)
    BY <1>1, OwnDescriptor
  <1>3. /\ Stage(pt[c], out[c], pipe[c])
        /\ pt[c].clean => Before("fill", pt[c], out[c], pipe[c])
    BY <1>1, <1>2 DEF Delivery, Awaited
  <1>4. l \in Nat /\ l <= SpliceMax /\ SpliceMax \in Nat /\ Modulus \in Nat /\ l < Modulus
    BY <1>2, ServerAssumption DEF WholeSplices
  <1>5. "fill" \notin Fresh /\ "fill" \notin Shorts
    BY DEF Fresh, Early, WholeSplices
  <1>6. /\ \A p : Stage(pt[c], out'[c], p)
        /\ pt[c].clean => /\ pt[c].file.ok /\ pt[c].piped /\ pt[c].nbytes = l
                          /\ pt[c].in_pipe = 0 /\ pipe[c] = <<>>
    BY <1>1, <1>2, <1>3, <1>5 DEF Stage, Before
  <1> HIDE DEF l
  <1>7. pt[c].clean => ask = l /\ Least(Least(ask, l), SpliceMax) = l
    BY <1>4, <1>6 DEF FillRequest, Least
  <1> HIDE DEF ask
  <1>8. \A r : pt[c].clean /\ r = l /\ pipe'[c] = Contents(pt[c].path, l) =>
          After("fill", r, pt[c], out'[c], pipe'[c])
    BY DEF After, Whole, l
  <1>9. CASE Complete(o, -1) /\ UNCHANGED pipe
    BY <1>1, <1>9, NothingCarried
  <1>10. CASE ask = 0 /\ Complete(o, 0) /\ UNCHANGED pipe
    <2>1. pt[c].clean => l = 0 /\ pipe'[c] = Contents(pt[c].path, l)
      <3>1. Contents(pt[c].path, 0) = <<>>
        BY ContentsWhole
      <3> QED
        BY <1>6, <1>7, <1>10, <3>1
    <2>2. Carries(o, 0)
      BY <1>1, <1>6, <1>8, <1>10, <2>1 DEF Carries
    <2> QED
      BY <1>10, <2>2
  <1>11. ASSUME NEW m, NEW n \in 0..m,
                m = Least(Least(ask, Sizes[fds[o.fd].of]), SpliceMax - Len(pipe[c])),
                n = m \/ "fill" \in Shorts,
                pipe' = [pipe EXCEPT ![c] = @ \o Contents(fds[o.fd].of, n)],
                Complete(o, n)
         PROVE  \E r \in Int : Complete(o, r) /\ Carries(o, r)
    <2>1. pipe \in [Conns -> Seq(Paths \X Nat)] /\ n \in Int
      BY <1>1, <1>11 DEF IInv, OthersType
    <2>2. /\ \A d \in Conns : d # c => pipe'[d] = pipe[d]
          /\ pipe'[c] = pipe[c] \o Contents(fds[o.fd].of, n)
      BY <1>2, <1>11, <2>1
    <2>3. ASSUME pt[c].clean PROVE n = l /\ pipe'[c] = Contents(pt[c].path, l)
      <3>1. fds[o.fd].of = pt[c].path /\ pipe[c] = <<>> /\ Len(pipe[c]) = 0
        BY <1>2, <1>6, <2>3, DescDistinct
      <3>2. m = l
        BY <1>4, <1>7, <1>11, <2>3, <3>1 DEF l
      <3>3. n = l
        BY <1>5, <1>11, <3>2
      <3> QED
        BY <1>4, <2>2, <3>1, <3>3, ContentsWhole
    <2>4. Carries(o, n)
      BY <1>1, <1>6, <1>8, <2>2, <2>3 DEF Carries
    <2> QED
      BY <1>11, <2>1, <2>4
  <1>12. \/ Complete(o, -1) /\ UNCHANGED pipe
         \/ ask = 0 /\ Complete(o, 0) /\ UNCHANGED pipe
         \/ LET m == Least(Least(ask, Sizes[fds[o.fd].of]), SpliceMax - Len(pipe[c]))
            IN  \E n \in 0..m :
                  /\ n = m \/ "fill" \in Shorts
                  /\ pipe' = [pipe EXCEPT ![c] = @ \o Contents(fds[o.fd].of, n)]
                  /\ Complete(o, n)
    BY Zenon DEF KernelFill, ask
  <1> QED
    BY <1>9, <1>10, <1>11, <1>12

(* A drain sends the whole pipe, if nothing before it failed.              *)
LEMMA DrainCarries ==
  ASSUME WholeSplices, HInv, ~churned, Delivery, NEW o \in ring, KernelDrain(o)
  PROVE  \E r \in Int : Complete(o, r) /\ Carries(o, r)
  <1> DEFINE c == o.id
             l == Sizes[pt[c].path]
             w == Contents(pt[c].path, l)
  <1>1. o.kind = "drain" /\ o.kind \in Responds /\ IInv
    BY DEF KernelDrain, Responds, HInv, GInv
  <1>2. /\ c \in Conns /\ pt[c] \in Task /\ pt[c].phase = "drain" /\ pt[c].path \in Paths
        /\ fds[o.fd].of = c /\ out[c] \in Output /\ pipe[c] \in Seq(Paths \X Nat)
    BY <1>1, OwnDescriptor, DescDistinct
  <1>3. /\ Stage(pt[c], out[c], pipe[c])
        /\ pt[c].clean => Before("drain", pt[c], out[c], pipe[c])
    BY <1>1, <1>2 DEF Delivery, Awaited
  <1>4. l \in Nat
    BY <1>2, ServerAssumption
  <1>5. "drain" \notin Fresh \cup Finished /\ "drain" \notin Shorts
    BY DEF Fresh, Early, Finished, WholeSplices
  <1>6. pt[c].clean => /\ pt[c].nbytes = 0 /\ pt[c].in_pipe = l /\ Headed(pt[c], out[c])
                       /\ out[c].body = <<>> /\ pipe[c] = w
    BY <1>2, <1>3 DEF Stage, Before, Whole
  <1>7. Len(w) = l /\ <<>> \o w = w /\ SubSeq(w, 1, l) = w
    BY <1>4, ContentsWhole
  <1>8. ASSUME pt[c].clean, Headed(pt[c], out'[c]), out'[c].body = w
        PROVE  /\ Stage(pt[c], out'[c], pipe'[c])
               /\ After("drain", l, pt[c], out'[c], pipe'[c])
    BY <1>2, <1>5, <1>6, <1>8 DEF Stage, After, Whole
  <1>9. ~pt[c].clean => Stage(pt[c], out'[c], pipe'[c])
    BY <1>2, <1>5 DEF Stage
  <1> HIDE DEF l, w
  <1>10. CASE Complete(o, -1) /\ UNCHANGED <<out, pipe>>
    BY <1>1, <1>10, NothingCarried
  <1>11. ASSUME NEW k, k = Least(pt[c].in_pipe, Len(pipe[c])), NEW n \in 0..k,
                n = k \/ "drain" \in Shorts,
                out' = [out EXCEPT ![c].body = @ \o SubSeq(pipe[c], 1, n)],
                pipe' = [pipe EXCEPT ![c] = SubSeq(@, n + 1, Len(@))],
                Complete(o, n)
         PROVE  \E r \in Int : Complete(o, r) /\ Carries(o, r)
    <2> DEFINE b == out[c].body \o SubSeq(pipe[c], 1, n)
               p == SubSeq(pipe[c], n + 1, Len(pipe[c]))
    <2>1. /\ pipe \in [Conns -> Seq(Paths \X Nat)] /\ out \in [Conns -> Output] /\ n \in Int
      BY <1>1, <1>11 DEF IInv, OthersType, Output
    <2>2. out' = [out EXCEPT ![c] = [out[c] EXCEPT !.body = b]] /\ pipe' = [pipe EXCEPT ![c] = p]
      BY <1>2, <1>11, <2>1 DEF Output
    <2> HIDE DEF b, p
    <2>3. /\ \A d \in Conns : d # c => out'[d] = out[d] /\ pipe'[d] = pipe[d]
          /\ out'[c] = [out[c] EXCEPT !.body = b]
      BY <1>2, <2>1, <2>2
    <2>4. out'[c].body = b /\ out'[c].hdr = out[c].hdr /\ out'[c].len = out[c].len
      BY <1>2, <2>3 DEF Output
    <2>5. ASSUME pt[c].clean
          PROVE  n = l /\ Headed(pt[c], out'[c]) /\ out'[c].body = w
      <3>1. k = l
        BY <1>4, <1>6, <1>7, <1>11, <2>5 DEF Least
      <3>2. n = l
        BY <1>5, <1>11, <3>1
      <3>3. b = w
        BY <1>6, <1>7, <2>5, <3>2 DEF b
      <3> QED
        BY <1>6, <2>4, <2>5, <3>2, <3>3 DEF Headed
    <2>6. Carries(o, n)
      BY <1>1, <1>8, <1>9, <2>3, <2>5 DEF Carries
    <2> QED
      BY <1>11, <2>1, <2>6
  <1>12. \/ Complete(o, -1) /\ UNCHANGED <<out, pipe>>
         \/ LET k == Least(pt[c].in_pipe, Len(pipe[c]))
            IN  \E n \in 0..k :
                  /\ n = k \/ "drain" \in Shorts
                  /\ out' = [out EXCEPT ![fds[o.fd].of].body = @ \o SubSeq(pipe[c], 1, n)]
                  /\ pipe' = [pipe EXCEPT ![c] = SubSeq(@, n + 1, Len(@))]
                  /\ Complete(o, n)
    BY Zenon DEF KernelDrain
  <1> QED
    BY <1>2, <1>10, <1>11, <1>12

LEMMA KernelCarries ==
  ASSUME WholeSplices, HInv, ~churned, Delivery, NEW o \in ring, Kernel(o)
  PROVE  pt' = pt /\ \E r \in Int : Complete(o, r) /\ Carries(o, r)
  <1>1. IInv
    BY DEF HInv, GInv
  <1>2. /\ pt' = pt
        /\ \E r \in Int : Complete(o, r)
    BY <1>1, KernelDoes DEF ServerKept
  <1>3. ASSUME KernelRecv(o) \/ KernelOpenat(o) \/ KernelStatx(o) \/ KernelClose(o)
        PROVE  \E r \in Int : Complete(o, r) /\ Carries(o, r)
    <2>1. UNCHANGED <<out, pipe>> /\ o.kind \notin Responds
      BY <1>3 DEF KernelRecv, KernelOpenat, KernelStatx, KernelClose, Responds
    <2> QED
      BY <1>1, <1>2, <2>1, NothingCarried
  <1> QED
    BY <1>2, <1>3, SendCarries, FillCarries, DrainCarries DEF Kernel

-----------------------------------------------------------------------------
(* The steps of the event loop.                                            *)

LEMMA DeliveryKernel ==
  ASSUME WholeSplices, HInv, ~churned, Delivery, NEW o \in ring, Kernel(o)
  PROVE  Delivery'
  <1>1. IInv
    BY DEF HInv, GInv
  <1>2. pt' = pt
    BY KernelCarries
  <1>3. PICK r \in Int : Complete(o, r) /\ Carries(o, r)
    BY KernelCarries
  <1> DEFINE e == [kind |-> o.kind, id |-> o.id, res |-> r]
  <1>4. /\ o.id \in Conns /\ o.kind \in OpKinds \cup {"accept"}
        /\ ring' = ring \ {o} /\ Post(o.kind, o.id, r)
    BY <1>1, <1>3, QueueSet DEF Complete
  <1>5. \A q : q \in Queued' <=> q \in Queued \/ q = e
    BY <1>1, <1>4, QueuedPosted
  <1>6. e.kind = o.kind /\ e.id = o.id /\ e.res = r
    OBVIOUS
  <1> HIDE DEF e
  <1>7. \A c \in Conns : Stage(pt'[c], out'[c], pipe'[c])
    BY <1>2, <1>3 DEF Delivery, Carries
  <1>8. ASSUME NEW u \in ring', Awaited(u), pt'[u.id].clean
        PROVE  Before(u.kind, pt'[u.id], out'[u.id], pipe'[u.id])
    <2>1. u \in ring /\ u # o /\ u.id \in Conns
      BY <1>1, <1>4, <1>8, QueueSet
    <2>2. CASE u.id = o.id
      <3>1. ~Awaited(o)
        BY <1>1, <1>8, <2>1, <2>2, QueueSet
      <3>2. UNCHANGED <<out, pipe>>
        <4>1. o.kind = "evict"
          BY <1>1, <3>1, QueueSet DEF Awaited, OpKinds, Waiting
        <4> QED
          BY <4>1 DEF Kernel, KernelRecv, KernelOpenat, KernelStatx, KernelSend,
             KernelFill, KernelDrain, KernelClose
      <3> QED
        BY <1>2, <1>8, <2>1, <3>2 DEF Delivery
    <2>3. CASE u.id # o.id
      BY <1>2, <1>3, <1>8, <2>1, <2>3 DEF Delivery, Carries
    <2> QED
      BY <2>2, <2>3
  <1>9. ASSUME NEW q \in Queued', Awaited(q), q.res >= 0, pt'[q.id].clean
        PROVE  After(q.kind, q.res, pt'[q.id], out'[q.id], pipe'[q.id])
    <2>1. CASE q = e
      BY <1>2, <1>3, <1>6, <1>9, <2>1 DEF Carries
    <2>2. CASE q \in Queued
      <3>1. q.id \in Conns
        BY <1>1, <1>9, <2>2, QueueSet
      <3>2. CASE q.id = o.id
        <4>1. ~Awaited(o)
          BY <1>1, <1>9, <2>2, <3>2, QueueSet
        <4>2. UNCHANGED <<out, pipe>>
          <5>1. o.kind = "evict"
            BY <1>1, <4>1, QueueSet DEF Awaited, OpKinds, Waiting
          <5> QED
            BY <5>1 DEF Kernel, KernelRecv, KernelOpenat, KernelStatx, KernelSend,
               KernelFill, KernelDrain, KernelClose
        <4> QED
          BY <1>2, <1>9, <2>2, <4>2 DEF Delivery
      <3>3. CASE q.id # o.id
        BY <1>2, <1>3, <1>9, <2>2, <3>1, <3>3 DEF Delivery, Carries
      <3> QED
        BY <3>2, <3>3
    <2> QED
      BY <1>5, <1>9, <2>1, <2>2
  <1> QED
    BY <1>7, <1>8, <1>9 DEF Delivery

(* Nobody is resumed, or nobody waits any more.                            *)
LEMMA DeliveryStill ==
  ASSUME IInv, Delivery, UNCHANGED <<pt, out, pipe>>,
         Queued' \subseteq Queued, ring' \subseteq ring
  PROVE  Delivery'
  BY DEF Delivery

\* A response that serves an open file has its length.
Sized == \A c \in Conns : pt[c].phase \in Responds /\ pt[c].file.ok =>
                         pt[c].file.size = Sizes[pt[c].path]

LEMMA DeliveryHandle ==
  ASSUME WholeSplices, IInv, IInv', Sized', Delivery, ~aborted, Handle
  PROVE  Delivery'
  <1> DEFINE e == Head(cq)
             c == e.id
             t == pt'[c]
  <1>1. Handling(e) /\ Advances(e) /\ Does(e)
    BY HandleAdvances, HandleDoes
  <1>2. UNCHANGED <<out, pipe>>
    BY <1>1 DEF Handling
  <1> HIDE DEF e
  <1>3. /\ e \in Queued /\ Queued' \subseteq Queued
        /\ c \in Conns /\ Owns(c, e) =>
             /\ \A o \in ring : Awaited(o) => o.id # c
             /\ \A q \in Queued' : Awaited(q) => q.id # c
    BY <1>1, QueuedHandled
  <1>4. CASE UNCHANGED <<pt, ring>>
    BY <1>2, <1>3, <1>4, DeliveryStill
  <1>5. CASE Still(e)
    BY <1>2, <1>3, <1>5, DeliveryStill DEF Still
  <1>6. ASSUME c \in Conns, Moves(e, pt[c], t, t.phase),
               pt' = [pt EXCEPT ![c] = t],
               NEW x, Resumes(e, x) \/ Ends(e, x) \/ \E v : Adds(e, x, v)
        PROVE  Delivery'
    <2>1. Owns(c, e) /\ \A o \in ring' : o \in ring \/ o.id = c \/ o.kind = "evict"
      <3>1. Resumes(e, x) => Owns(c, e) /\ \A o \in ring' : o \in ring \/ o.id = c
        BY DEF Resumes, Op
      <3>2. Ends(e, x) => Owns(c, e) /\ ring' = ring
        BY DEF Ends
      <3>3. \A v : Adds(e, x, v) =>
              Owns(c, e) /\ \A o \in ring' : o \in ring \/ o.id = c \/ o.kind = "evict"
        BY DEF Adds, EvictOps, Op
      <3> QED
        BY <1>6, <3>1, <3>2, <3>3
    <2>2. /\ pt \in [Conns -> Task] /\ pt[c] \in Task /\ t \in Task
          /\ out[c] \in Output /\ e \in Completion
      BY <1>3, <1>6, QueueSet DEF IInv, Tasks, OpsType, OthersType, Output
    <2>3. \A d \in Conns : d # c => pt'[d] = pt[d]
      BY <1>6, <2>2
    <2>4. e.res \in Int
      BY <2>2 DEF Completion
    <2>5. /\ e.kind \in Waiting => pt[c].phase = e.kind
          /\ pt[c].phase \in Serving => pt[c].path \in Paths
      BY <1>3, <1>6, QueueSet DEF Awaited, Waiting, IInv, Tasks, PathOK
    <2>6. /\ Stage(pt[c], out[c], pipe[c])
          /\ e.res >= 0 /\ pt[c].clean => After(e.kind, e.res, pt[c], out[c], pipe[c])
      <3>1. CASE Awaited(e)
        BY <1>3, <1>6, <3>1 DEF Delivery
      <3>2. CASE ~Awaited(e)
        BY <1>6, <3>2 DEF Delivery, Awaited, After
      <3> QED
        BY <3>1, <3>2
    <2>7. t.phase \in Responds /\ t.file.ok => t.file.size = Sizes[t.path]
      BY <1>6 DEF Sized
    <2> DEFINE u == pt[c]
               o == out[c]
               p == pipe[c]
    <2>8. Moves(e, u, t, t.phase)
      BY <1>6
    <2> HIDE DEF u, t, c, o, p
    <2>9. Stage(t, o, p) /\ (t.clean => Before(t.phase, t, o, p))
      BY <2>2, <2>4, <2>5, <2>6, <2>7, <2>8, MovesKeep DEF u, o, p
    <2>10. /\ Stage(pt'[c], out'[c], pipe'[c])
           /\ pt'[c].clean => Before(pt'[c].phase, pt'[c], out'[c], pipe'[c])
      BY <1>2, <2>9 DEF t, o, p
    <2>11. \A d \in Conns : Stage(pt'[d], out'[d], pipe'[d])
      BY <1>2, <2>3, <2>10 DEF Delivery
    <2>12. ASSUME NEW w \in ring', Awaited(w), pt'[w.id].clean
           PROVE  Before(w.kind, pt'[w.id], out'[w.id], pipe'[w.id])
      <3>1. pt'[w.id].phase = w.kind /\ w.id \in Conns
        BY <2>12 DEF IInv, Tasks, OpsInv, OpsType, OneOp
      <3>2. CASE w.id = c
        BY <2>10, <2>12, <3>1, <3>2
      <3>3. CASE w.id # c
        <4>1. w \in ring
          BY <2>1, <2>12, <3>3 DEF Awaited
        <4> QED
          BY <1>2, <2>3, <2>12, <3>1, <3>3, <4>1 DEF Delivery
      <3> QED
        BY <3>2, <3>3
    <2>13. ASSUME NEW q \in Queued', Awaited(q), q.res >= 0, pt'[q.id].clean
           PROVE  After(q.kind, q.res, pt'[q.id], out'[q.id], pipe'[q.id])
      <3>1. q \in Queued /\ q.id # c
        BY <1>3, <1>6, <2>1, <2>13 DEF c
      <3>2. q.id \in Conns
        BY <2>13, <3>1, QueueSet
      <3> QED
        BY <1>2, <2>3, <2>13, <3>1, <3>2 DEF Delivery
    <2> QED
      BY <2>11, <2>12, <2>13 DEF Delivery
  <1> QED
    BY <1>1, <1>4, <1>5, <1>6 DEF Does, Advances

LEMMA DeliveryAccept ==
  ASSUME IInv, Delivery, NEW c \in Conns, KernelAccept(c)
  PROVE  Delivery'
  <1>1. /\ UNCHANGED <<ring, pipe, out>> /\ pt[c].phase = "none"
        /\ pt' = [pt EXCEPT ![c].phase = "pending"] /\ pt \in [Conns -> Task]
        /\ \E f \in Fd : Post("accept", c, f)
    BY DEF KernelAccept, IInv, Tasks, OpsType
  <1>2. pt'[c].phase = "pending" /\ \A d \in Conns : d # c => pt'[d] = pt[d]
    BY <1>1 DEF Task
  <1>3. {"none", "pending"} \subseteq Fresh /\ "pending" \notin Responds \cup Finished
        /\ "none" \notin Waiting
    BY DEF Fresh, Early, Finished, Responds, Waiting
  <1>4. Stage(pt'[c], out'[c], pipe'[c])
    <2>1. Stage(pt[c], out[c], pipe[c])
      BY DEF Delivery
    <2> QED
      BY <1>1, <1>2, <1>3, <2>1 DEF Stage
  <1>5. \A o \in ring : Awaited(o) => o.id \in Conns /\ o.id # c
    BY <1>1, <1>3, QueueSet DEF Awaited
  <1>6. \A q \in Queued : Awaited(q) => q.id \in Conns /\ q.id # c
    BY <1>1, <1>3, QueueSet DEF Awaited
  <1>7. \A q \in Queued' : Awaited(q) => q \in Queued
    <2>1. Fd \subseteq Int
      BY DEF Fd
    <2>2. PICK f \in Fd : Post("accept", c, f)
      BY <1>1
    <2>3. \A q : q \in Queued' <=> q \in Queued \/ q = [kind |-> "accept", id |-> c, res |-> f]
      BY <2>1, <2>2, QueuedPosted
    <2> QED
      BY <2>3 DEF Awaited
  <1> QED
    BY <1>1, <1>2, <1>4, <1>5, <1>6, <1>7 DEF Delivery

LEMMA DeliveryAcceptFails ==
  ASSUME IInv, Delivery, KernelAcceptFails
  PROVE  Delivery'
  <1>1. UNCHANGED <<ring, pt, pipe, out>> /\ Post("accept", None, -1)
    BY DEF KernelAcceptFails
  <1>2. \A q \in Queued' : Awaited(q) => q \in Queued
    <2>1. -1 \in Int
      OBVIOUS
    <2>2. \A q : q \in Queued' <=> q \in Queued \/ q = [kind |-> "accept", id |-> None, res |-> -1]
      BY <1>1, <2>1, QueuedPosted
    <2> QED
      BY <2>2 DEF Awaited
  <1> QED
    BY <1>1, <1>2 DEF Delivery

LEMMA DeliveryStep ==
  ASSUME WholeSplices, HInv, IInv', Sized', ~churned, Delivery, [Next]_vars
  PROVE  Delivery'
  <1>1. IInv
    BY DEF HInv, GInv
  <1>2. UNCHANGED vars => Delivery'
    BY DEF vars, kernel, Delivery, Queued
  <1> QED
    BY <1>1, <1>2, DeliveryAccept, DeliveryAcceptFails, DeliveryKernel, DeliveryHandle
       DEF Next, Step, Rest

LEMMA InitDelivery == Init => Delivery
  <1> SUFFICES ASSUME Init PROVE Delivery
    OBVIOUS
  <1>1. Queued = {} /\ ring = {}
    BY DEF Init, Queued
  <1>2. ASSUME NEW c \in Conns PROVE Stage(pt[c], out[c], pipe[c])
    <2>1. /\ pt[c].phase = "none" /\ out[c].len = -1 /\ out[c].hdr = 0
          /\ out[c].body = <<>> /\ pipe[c] = <<>>
      BY DEF Init, NoTask
    <2>2. "none" \notin Finished
      BY DEF Finished
    <2> QED
      BY <2>1, <2>2 DEF Stage
  <1> QED
    BY <1>1, <1>2 DEF Delivery

(* Until the first eviction the responses are as Delivery says.            *)
LEMMA Delivered ==
  ASSUME WholeSplices
  PROVE  Spec => [](HInv /\ (~churned => Delivery))
  <1>1. HInv => IInv /\ (~churned => Sized)
    BY ReadsOwnFile DEF HInv, GInv, Sized
  <1>2. HInv /\ ~churned' /\ [Next]_vars => ~churned
    BY HistoryStep
  <1>3. HInv /\ IInv' /\ Sized' /\ ~churned /\ Delivery /\ [Next]_vars => Delivery'
    BY DeliveryStep
  <1>4. Init => Delivery
    BY InitDelivery
  <1> QED
    BY <1>1, <1>2, <1>3, <1>4, HistoryInductive, PTL DEF Spec

-----------------------------------------------------------------------------
(* The theorems.                                                           *)

(* What a client has received is at all times a beginning of the response  *)
(* it is owed, header first, while none of its operations has failed: no   *)
(* interleaving of responses lets a byte of one into another, as long as   *)
(* nothing has been evicted and every splice moves a whole file.           *)
THEOREM ResponsesInOrder ==
  ASSUME WholeSplices
  PROVE  Spec => [](~churned => InOrder)
  <1>1. HInv /\ Delivery => InOrder
    <2> SUFFICES ASSUME HInv, Delivery, NEW c \in Conns, pt[c].clean
                 PROVE  /\ out[c].body # <<>> => out[c].hdr = HdrLen
                        /\ out[c].body = Contents(pt[c].path, Len(out[c].body))
                        /\ out[c].len \in {-1} \cup {Sizes[p] : p \in {pt[c].path} \cap Paths}
      BY DEF InOrder
    <2> DEFINE t == pt[c]
               o == out[c]
    <2>1. Stage(t, o, pipe[c]) /\ t.clean
      BY DEF Delivery
    <2>2. t.phase \in Phases /\ (t.phase \in Serving => t.path \in Paths)
      BY DEF HInv, GInv, IInv, Tasks, PathOK, OpsType, Task
    <2>3. \/ t.phase \in Fresh
          \/ t.phase = "send"
          \/ t.phase = "fill"
          \/ t.phase = "drain"
          \/ t.phase \in Finished
      BY <2>2 DEF Phases, Waiting, Fresh, Early, Finished
    <2>4. {"send", "fill", "drain"} \subseteq Serving
      BY DEF Serving, Waiting
    <2>5. t.path \in Paths /\ o.len = Sizes[t.path] =>
            o.len \in {-1} \cup {Sizes[p] : p \in {t.path} \cap Paths}
      OBVIOUS
    <2>6. o.body = <<>> => o.body = Contents(t.path, Len(o.body))
      BY NothingReceived
    <2>7. t.path \in Paths /\ o.body = Whole(t) => o.body = Contents(t.path, Len(o.body))
      BY ContentsWhole, ServerAssumption DEF Whole
    <2> HIDE DEF t, o
    <2>8. /\ o.body # <<>> => o.hdr = HdrLen
          /\ o.body = Contents(t.path, Len(o.body))
          /\ o.len \in {-1} \cup {Sizes[p] : p \in {t.path} \cap Paths}
      BY <2>1, <2>2, <2>3, <2>4, <2>5, <2>6, <2>7 DEF Stage, Headed
    <2> QED
      BY <2>8 DEF t, o
  <1> QED
    BY <1>1, Delivered, PTL

(* A response none of whose operations failed is complete when it ends:    *)
(* the whole header with the length of the file, and the whole file.       *)
THEOREM ResponsesComplete ==
  ASSUME WholeSplices
  PROVE  Spec => [](~churned => Integrity)
  <1>1. Delivery => Integrity
    BY DEF Delivery, Stage, Headed, Whole, Integrity, Finished
  <1> QED
    BY <1>1, Delivered, PTL

(* With room in the cache for every public file, and every file within a   *)
(* splice, clients receive what they are owed and nothing else.            *)
THEOREM RoomyServerDelivers ==
  ASSUME RoomyCache, WholeSplices
  PROVE  Spec => [](InOrder /\ Integrity)
  BY NothingEvicted, ResponsesInOrder, ResponsesComplete, PTL

=============================================================================
