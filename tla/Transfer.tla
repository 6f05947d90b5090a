------------------------------ MODULE Transfer --------------------------------
(***************************************************************************)
(* One body sent by async_io_sendfile of IO/async_io.c, in numbers of      *)
(* bytes: the file is spliced into a pipe and the pipe into the socket by  *)
(* turns, while other processes rewrite the file.  Module Server follows   *)
(* the same transfer among other responses, over files that do not change  *)
(* and are shorter than an unsigned int can count.                         *)
(*                                                                         *)
(* An operation and its completion handler are one step: nothing but the   *)
(* file can change between the two.                                        *)
(***************************************************************************)
EXTENDS Integers

CONSTANTS
  Lengths,    \* the lengths the file may have
  SpliceMax,  \* SPLICE_MAX_SIZE, which is also the capacity of a pipe
  Modulus,    \* number of values of an unsigned int
  MaxSent     \* a transfer is followed until it has sent so much

ASSUME TransferAssumption ==
  /\ Lengths \subseteq Nat
  /\ SpliceMax \in Nat \ {0}
  /\ Modulus \in Nat /\ Modulus > SpliceMax
  /\ MaxSent \in Nat

VARIABLES
  file,       \* length of the file
  announced,  \* stx_size at the statx, and so Content-Length
  nbytes,     \* splice_all.nbytes, an unsigned int: still to be read
  in_pipe,    \* splice_all.in_pipe
  sent,       \* bytes the client has received
  phase,      \* the operation in flight, or how the transfer ended
  overrun     \* history: nbytes was taken below zero

vars == <<file, announced, nbytes, in_pipe, sent, phase, overrun>>

Phases == {"fill", "drain", "ended", "failed"}

Smallest(a, b) == IF a < b THEN a ELSE b

\* The 64-bit size becomes an unsigned int.
Narrowed(size) == size % Modulus

Init ==
  /\ file \in Lengths
  /\ announced = file
  /\ nbytes = Narrowed(announced)
  /\ in_pipe = 0
  /\ sent = 0
  /\ phase = "fill"
  /\ overrun = FALSE

\* Bytes asked of the file, in unsigned arithmetic.
Asked == (Smallest(nbytes, SpliceMax) - in_pipe) % Modulus

\* What a fill can get: off_in is 0, so every fill reads the file anew.
Available == Smallest(Asked, Smallest(file, SpliceMax - in_pipe))

BugFilled(n) == nbytes - n
BugFilledSaturating(n) == IF n > nbytes THEN 0 ELSE nbytes - n
Filled(n) == (nbytes - n) % Modulus

(* The fill moves n bytes, fewer than it could (but some) if cut short.  A *)
(* pipe without room would block it.                                       *)
Fill ==
  /\ phase = "fill" /\ sent <= MaxSent
  /\ Asked = 0 \/ in_pipe < SpliceMax
  /\ \E n \in 0..Available :
       /\ n = 0 => Available = 0
       /\ nbytes' = Filled(n)
       /\ in_pipe' = in_pipe + n
       /\ overrun' = (overrun \/ n > nbytes)
  /\ phase' = "drain"
  /\ UNCHANGED <<file, announced, sent>>

BugDrained(n) == 0
Drained(n) == in_pipe - n

BugAfterDrain(left) == IF nbytes = 0 THEN "ended" ELSE "fill"
BugStillDraining(left) == IF left = 0 /\ nbytes = 0 THEN "ended" ELSE "drain"
AfterDrain(left) == IF left = 0 /\ nbytes = 0 THEN "ended" ELSE "fill"

Drain ==
  /\ phase = "drain"
  /\ \E n \in 0..in_pipe :
       /\ n = 0 => in_pipe = 0
       /\ in_pipe' = Drained(n)
       /\ sent' = sent + n
       /\ phase' = AfterDrain(Drained(n))
  /\ UNCHANGED <<file, announced, nbytes, overrun>>

(* A splice that fails resumes the response, which closes its client.      *)
Fail ==
  /\ phase \in {"fill", "drain"}
  /\ phase' = "failed"
  /\ UNCHANGED <<file, announced, nbytes, in_pipe, sent, overrun>>

(* Another process truncates or extends the file.                          *)
Resize ==
  /\ file' \in Lengths
  /\ UNCHANGED <<announced, nbytes, in_pipe, sent, phase, overrun>>

Next == Fill \/ Drain \/ Fail \/ Resize

Spec == Init /\ [][Next]_vars

\* The kernel completes every splice and the event loop handles it.
FairSpec == Spec /\ WF_vars(Fill \/ Drain)

-----------------------------------------------------------------------------
(* Properties.                                                             *)

(* The counters stay within an unsigned int and the pipe within its        *)
(* capacity, also where their difference is taken below zero.              *)
TypeOK ==
  /\ file \in Lengths /\ announced \in Lengths
  /\ nbytes \in 0..Modulus-1
  /\ in_pipe \in 0..SpliceMax
  /\ sent \in Nat
  /\ phase \in Phases
  /\ overrun \in BOOLEAN

(* handle_splice_all_completion loses count of no byte, whatever fills and *)
(* drains fall short and however the file changes: what was sent, what the *)
(* pipe holds and what is still to be read make up the size as narrowed by *)
(* async_io_sendfile, as long as nbytes was not taken below zero.          *)
Account == ~overrun => sent + in_pipe + nbytes = Narrowed(announced)

(* A transfer that ends without a failure has sent exactly what the header *)
(* announced; the exceptions are a size beyond an unsigned int, of which   *)
(* less is sent, and an overrun.                                           *)
Complete ==
  phase = "ended" /\ ~overrun =>
    \/ sent = announced
    \/ announced >= Modulus /\ sent < Modulus

(* A short drain that leaves more in the pipe than is still to be read     *)
(* makes the next fill ask for almost 2^32 bytes; once nbytes has wrapped  *)
(* the transfer ends only after 2^32 bytes more than it should have sent.  *)
OverrunsInFull ==
  phase = "ended" /\ overrun => sent >= Narrowed(announced) + Modulus

(* The transfer ends if the file does not stay empty: every fill starts at *)
(* offset 0, so a file cut short still feeds it.  With an empty file fill  *)
(* and drain alternate for ever.                                           *)
Ends == <>[](file > 0) /\ []~overrun => <>(phase \in {"ended", "failed"})

=============================================================================
