------------------------------- MODULE Receive -------------------------------
(***************************************************************************)
(* One connection from its accept to the verdict on its request:           *)
(* handle_recv_submission and handle_recv_completion of IO/async_io.c with *)
(* the string they share.  The bytes come in pieces of one length, the     *)
(* unit of the limits; a token is never cut in two.  A recv may return any *)
(* number of the pieces that came, up to the room it was given.            *)
(*                                                                         *)
(* Names that begin with Bug are mistakes the neighbouring definition      *)
(* could hold, not the code.                                               *)
(***************************************************************************)
EXTENDS RequestParser

CONSTANTS
  Pieces,      \* what a client may send, as sequences of tokens
  Chunk,       \* RECV_CHUNK
  MaxRequest,  \* MAX_REQUEST
  Pipelined    \* tokens a client sends after the empty line (bounds the model)

ASSUME ReceiveAssumption ==
  /\ Chunk \in Nat \ {0} /\ MaxHeader \in Nat \ {0} /\ MaxRequest \in Nat
  /\ MaxHeader <= Chunk /\ 2 * Chunk <= MaxRequest
  /\ Pieces \subseteq Seq(Tokens)

VARIABLES
  buffer,   \* ctx->recv.buffer
  length,   \* its length, in pieces
  alloc,    \* what is allocated for it
  landed,   \* some of it was written by the recv in flight
  state

vars == <<buffer, length, alloc, landed, state>>

(* sdsMakeRoomFor(buffer, RECV_CHUNK) *)
BugGrown(a, len) == IF a = 0 THEN Chunk ELSE a
Grown(a, len) == IF a - len >= Chunk THEN a ELSE 2 * (len + Chunk)

Init ==
  /\ buffer = <<>> /\ length = 0
  /\ alloc = Grown(0, 0)
  /\ landed = FALSE
  /\ state = "receiving"

BugArrive(x) ==
  /\ state = "receiving"
  /\ length <= alloc
  /\ LET e == HeadersEnd(buffer)
     IN e # 0 => Len(buffer) - (e + 1) < Pipelined
  /\ buffer' = buffer \o x /\ length' = length + 1
  /\ landed' = TRUE
  /\ UNCHANGED <<alloc, state>>
(* The kernel writes a piece where the recv in flight asked for it.        *)
Arrive(x) ==
  /\ state = "receiving"
  /\ length < alloc
  /\ LET e == HeadersEnd(buffer)
     IN e # 0 => Len(buffer) - (e + 1) < Pipelined
  /\ buffer' = buffer \o x /\ length' = length + 1
  /\ landed' = TRUE
  /\ UNCHANGED <<alloc, state>>

(* handle_recv_completion with a positive result.                          *)
Completion ==
  /\ state = "receiving" /\ landed
  /\ landed' = FALSE
  /\ LET v == Parse(buffer, length) IN
       \/ /\ v < 0 \/ length > MaxRequest
          /\ state' = "rejected" /\ UNCHANGED alloc
       \/ /\ v = 0 /\ length <= MaxRequest
          /\ alloc' = Grown(alloc, length) /\ UNCHANGED state
       \/ /\ v > 0 /\ length <= MaxRequest
          /\ state' = "dispatched" /\ UNCHANGED alloc
  /\ UNCHANGED <<buffer, length>>

(* The client went away, or recv was given no room.                        *)
EmptyCompletion ==
  /\ state = "receiving" /\ ~landed
  /\ state' = "dropped"
  /\ UNCHANGED <<buffer, length, alloc, landed>>

Ended == state # "receiving" /\ UNCHANGED vars

Next ==
  \/ \E x \in Pieces : Arrive(x)
  \/ Completion \/ EmptyCompletion \/ Ended

(* The client sends as long as the model lets it, or leaves; the event     *)
(* loop takes completions.                                                 *)
Spec == /\ Init /\ [][Next]_vars
        /\ WF_vars(Completion)
        /\ WF_vars(\E x \in Pieces : Arrive(x))

-----------------------------------------------------------------------------
(* Properties.                                                             *)

(* No recv writes beyond the room that handle_recv_submission made.        *)
TypeOK ==
  /\ buffer \in Seq(Tokens)
  /\ alloc \in Nat /\ length \in 0..alloc
  /\ landed \in BOOLEAN
  /\ state \in {"receiving", "dispatched", "rejected", "dropped"}

(* However the bytes are cut into recvs, a request is dispatched only if   *)
(* it is well formed up to its empty line, and rejected only if it is not, *)
(* or if MAX_HEADER_BYTES came without an empty line.                      *)
Verdict ==
  state \in {"dispatched", "rejected"} =>
  LET e == HeadersEnd(buffer)
      good == e # 0 /\ Request(SubSeq(buffer, 1, e + 1))
  IN /\ state = "dispatched" => good
     /\ state = "rejected" => ~good /\ (e = 0 => length >= MaxHeader)

(* Every recv is given room for RECV_CHUNK bytes (were it given none, its  *)
(* result 0 would be taken for the end of the stream), and not by making   *)
(* the string larger: the parser's limit on the header rejects before, so  *)
(* that the check of handle_recv_completion against MAX_REQUEST, which is  *)
(* more, never succeeds.                                                   *)
RoomToReceive ==
  /\ state = "receiving" /\ ~landed => alloc - length >= Chunk
  /\ length <= 2 * Chunk

(* A client that keeps sending is not received from for ever: it is        *)
(* answered with a verdict, whatever it sends.                             *)
Decided == <>(state # "receiving")

=============================================================================
