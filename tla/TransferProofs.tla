--------------------------- MODULE TransferProofs -----------------------------
(* Proofs that the counters of a transfer are right for files of any       *)
(* length, rewritten at any time, and any width of the integers.           *)
EXTENDS Transfer, TLAPS

(* Reduction modulo m yields one of the m values and changes none of them; *)
(* a number just below them comes back m higher.                           *)
LEMMA ModRange == ASSUME NEW m \in Nat \ {0}, NEW x \in Int
                  PROVE  x % m \in 0..m-1
  OBVIOUS

LEMMA ModSame == ASSUME NEW m \in Nat \ {0}, NEW x \in 0..m-1
                 PROVE  x % m = x
  OBVIOUS

LEMMA ModWraps == ASSUME NEW m \in Nat \ {0}, NEW x \in -m..-1
                  PROVE  x % m = x + m
  OBVIOUS

(* A fill never gets more than there is room for in the pipe.              *)
LEMMA AvailableBounds == ASSUME TypeOK PROVE Available \in Int /\ Available <= SpliceMax - in_pipe
<1> USE TransferAssumption DEF TypeOK, Smallest
<1>1. Asked \in Int
  BY ModRange DEF Asked
<1>2. file \in Nat /\ SpliceMax - in_pipe \in Int
  OBVIOUS
<1> QED
  BY <1>1, <1>2 DEF Available

(* The counters stay within their types (TypeOK): nbytes, an unsigned int, *)
(* also where a fill takes it below zero, and the pipe within its room.    *)
THEOREM TypeCorrect == Spec => []TypeOK
<1>1. Init => TypeOK
  <2> SUFFICES ASSUME Init PROVE TypeOK
    OBVIOUS
  <2>1. Narrowed(announced) \in 0..Modulus-1
    BY ModRange, TransferAssumption DEF Init, Narrowed
  <2>2. overrun \in BOOLEAN
    BY DEF Init
  <2>3. nbytes \in 0..Modulus-1 /\ in_pipe \in 0..SpliceMax /\ sent \in Nat
    BY <2>1, TransferAssumption DEF Init
  <2> QED
    BY <2>2, <2>3 DEF Init, TypeOK, Phases
<1>2. TypeOK /\ [Next]_vars => TypeOK'
  <2> SUFFICES ASSUME TypeOK, [Next]_vars PROVE TypeOK'
    OBVIOUS
  <2> USE TransferAssumption DEF TypeOK, Phases
  <2>1. CASE Fill
    <3>1. PICK n \in 0..Available : /\ nbytes' = Filled(n)
                                    /\ in_pipe' = in_pipe + n
                                    /\ overrun' = (overrun \/ n > nbytes)
      BY <2>1 DEF Fill
    <3>2. n \in Nat /\ in_pipe + n \in 0..SpliceMax
      BY AvailableBounds
    <3>3. nbytes' \in 0..Modulus-1
      BY <3>1, <3>2, ModRange DEF Filled
    <3>4. overrun' \in BOOLEAN
      BY <3>1
    <3> QED
      BY <2>1, <3>1, <3>2, <3>3, <3>4 DEF Fill
  <2>2. CASE Drain
    BY <2>2 DEF Drain, Drained, AfterDrain
  <2>3. CASE Fail
    BY <2>3 DEF Fail
  <2>4. CASE Resize
    BY <2>4 DEF Resize
  <2>5. CASE UNCHANGED vars
    BY <2>5 DEF vars
  <2> QED
    BY <2>1, <2>2, <2>3, <2>4, <2>5 DEF Next
<1> QED
  BY <1>1, <1>2, PTL DEF Spec

(* No byte is lost count of (Account): fills move bytes from nbytes to     *)
(* in_pipe and drains from in_pipe to the client, in whatever portions.    *)
THEOREM NothingMiscounted == Spec => []Account
<1>1. Init => Account
  <2> SUFFICES ASSUME Init PROVE Account
    OBVIOUS
  <2>1. Narrowed(announced) \in 0..Modulus-1
    BY ModRange, TransferAssumption DEF Init, Narrowed
  <2> QED
    BY <2>1 DEF Init, Account
<1>2. TypeOK /\ Account /\ [Next]_vars => Account'
  <2> SUFFICES ASSUME TypeOK, Account, [Next]_vars PROVE Account'
    OBVIOUS
  <2> USE TransferAssumption DEF TypeOK, Account, Narrowed
  <2>1. CASE Fill
    <3>1. PICK n \in 0..Available : /\ nbytes' = Filled(n)
                                    /\ in_pipe' = in_pipe + n
                                    /\ overrun' = (overrun \/ n > nbytes)
      BY <2>1 DEF Fill
    <3>2. n \in Nat
      BY AvailableBounds
    <3> SUFFICES ASSUME ~overrun' PROVE sent' + in_pipe' + nbytes' = Narrowed(announced)'
      OBVIOUS
    <3>3. ~(n > nbytes)
      BY <3>1, Zenon
    <3>4. nbytes - n \in 0..Modulus-1
      BY <3>2, <3>3
    <3>5. nbytes' = nbytes - n
      <4>1. (nbytes - n) % Modulus = nbytes - n
        BY <3>4, ModSame
      <4> QED
        BY <3>1, <4>1 DEF Filled
    <3>6. ~overrun /\ sent' = sent /\ announced' = announced
      BY <2>1, <3>1 DEF Fill
    <3> QED
      BY <3>1, <3>2, <3>5, <3>6
  <2>2. CASE Drain
    <3>1. PICK n \in 0..in_pipe : in_pipe' = Drained(n) /\ sent' = sent + n
      BY <2>2 DEF Drain
    <3>2. UNCHANGED <<announced, nbytes, overrun>>
      BY <2>2 DEF Drain
    <3> QED
      BY <3>1, <3>2 DEF Drained
  <2>3. CASE Fail
    BY <2>3 DEF Fail
  <2>4. CASE Resize
    BY <2>4 DEF Resize
  <2>5. CASE UNCHANGED vars
    BY <2>5 DEF vars
  <2> QED
    BY <2>1, <2>2, <2>3, <2>4, <2>5 DEF Next
<1> QED
  BY <1>1, <1>2, TypeCorrect, PTL DEF Spec

(* A transfer ends only with nothing left to read and the pipe empty.      *)
Emptied == phase = "ended" => in_pipe = 0 /\ nbytes = 0

LEMMA EndsEmpty == Spec => []Emptied
<1>1. Init => Emptied
  BY DEF Init, Emptied
<1>2. TypeOK /\ Emptied /\ [Next]_vars => Emptied'
  <2> SUFFICES ASSUME TypeOK, Emptied, [Next]_vars PROVE Emptied'
    OBVIOUS
  <2>1. CASE Fill
    BY <2>1 DEF Fill, Emptied
  <2>2. CASE Drain
    BY <2>2 DEF Drain, AfterDrain, Emptied
  <2>3. CASE Fail
    BY <2>3 DEF Fail, Emptied
  <2>4. CASE Resize
    BY <2>4 DEF Resize, Emptied
  <2>5. CASE UNCHANGED vars
    BY <2>5 DEF vars, Emptied
  <2> QED
    BY <2>1, <2>2, <2>3, <2>4, <2>5 DEF Next
<1> QED
  BY <1>1, <1>2, TypeCorrect, PTL DEF Spec

(* A response that ends without failure or overrun sent what its header    *)
(* announced, or less than 2^32 bytes of a longer file (Complete).         *)
THEOREM SendsAnnounced == Spec => []Complete
<1>1. TypeOK /\ Account /\ Emptied => Complete
  <2> SUFFICES ASSUME TypeOK, Account, Emptied, phase = "ended", ~overrun
               PROVE  \/ sent = announced
                      \/ announced >= Modulus /\ sent < Modulus
    BY DEF Complete
  <2> USE TransferAssumption DEF TypeOK
  <2>1. sent = announced % Modulus
    BY DEF Account, Emptied, Narrowed
  <2>2. CASE announced < Modulus
    BY <2>1, <2>2, ModSame
  <2>3. CASE announced >= Modulus
    BY <2>1, <2>3, ModRange
  <2> QED
    BY <2>2, <2>3
<1> QED
  BY <1>1, TypeCorrect, NothingMiscounted, EndsEmpty, PTL

(* What an overrun leaves: what was sent, is held and is still to be read  *)
(* make up 2^32 bytes more than the narrowed size, or a multiple of that.  *)
WrappedAccount ==
  overrun => sent + in_pipe + nbytes >= Narrowed(announced) + Modulus

LEMMA OverrunKept == Spec => []WrappedAccount
<1>1. Init => WrappedAccount
  BY DEF Init, WrappedAccount
<1>2. TypeOK /\ Account /\ WrappedAccount /\ [Next]_vars => WrappedAccount'
  <2> SUFFICES ASSUME TypeOK, Account, WrappedAccount, [Next]_vars PROVE WrappedAccount'
    OBVIOUS
  <2> USE TransferAssumption
  <2>0. Narrowed(announced) \in 0..Modulus-1
    BY ModRange DEF TypeOK, Narrowed
  <2>1. CASE Fill
    <3>1. PICK n \in 0..Available : /\ nbytes' = Filled(n)
                                    /\ in_pipe' = in_pipe + n
                                    /\ overrun' = (overrun \/ n > nbytes)
      BY <2>1 DEF Fill
    <3>2. n \in Nat /\ n <= SpliceMax
      BY AvailableBounds DEF TypeOK
    <3>3. sent' = sent /\ announced' = announced
      BY <2>1 DEF Fill
    <3>4. Narrowed(announced)' = Narrowed(announced)
      BY <3>3 DEF Narrowed
    <3> SUFFICES ASSUME overrun'
                 PROVE  sent' + in_pipe' + nbytes' >= Narrowed(announced) + Modulus
      BY <3>4 DEF WrappedAccount
    <3>5. \/ overrun /\ sent + in_pipe + nbytes >= Narrowed(announced) + Modulus
          \/ ~overrun /\ n > nbytes /\ sent + in_pipe + nbytes = Narrowed(announced)
      BY <3>1, Zenon DEF Account, WrappedAccount
    <3>6. CASE n > nbytes
      <4>1. nbytes - n \in -Modulus..-1
        BY <3>2, <3>6 DEF TypeOK
      <4>2. nbytes' = nbytes - n + Modulus
        BY <3>1, <4>1, ModWraps DEF Filled
      <4> QED
        BY <2>0, <3>1, <3>2, <3>3, <3>5, <4>2 DEF TypeOK
    <3>7. CASE n <= nbytes
      <4>1. nbytes - n \in 0..Modulus-1
        BY <3>2, <3>7 DEF TypeOK
      <4>2. nbytes' = nbytes - n
        BY <3>1, <4>1, ModSame DEF Filled
      <4>3. ~(n > nbytes)
        BY <3>2, <3>7 DEF TypeOK
      <4> QED
        BY <2>0, <3>1, <3>2, <3>3, <3>5, <4>2, <4>3 DEF TypeOK
    <3> QED
      BY <3>2, <3>6, <3>7 DEF TypeOK
  <2>2. CASE Drain
    <3>1. PICK n \in 0..in_pipe : in_pipe' = Drained(n) /\ sent' = sent + n
      BY <2>2 DEF Drain
    <3>2. UNCHANGED <<announced, nbytes, overrun>>
      BY <2>2 DEF Drain
    <3>3. sent' + in_pipe' + nbytes' = sent + in_pipe + nbytes
      BY <3>1, <3>2 DEF Drained, TypeOK
    <3>4. Narrowed(announced)' = Narrowed(announced)
      BY <3>2 DEF Narrowed
    <3> QED
      BY <3>2, <3>3, <3>4, Zenon DEF WrappedAccount
  <2>3. CASE Fail
    BY <2>3 DEF Fail, WrappedAccount, Narrowed
  <2>4. CASE Resize
    BY <2>4 DEF Resize, WrappedAccount, Narrowed
  <2>5. CASE UNCHANGED vars
    BY <2>5 DEF vars, WrappedAccount, Narrowed
  <2> QED
    BY <2>1, <2>2, <2>3, <2>4, <2>5 DEF Next
<1> QED
  BY <1>1, <1>2, TypeCorrect, NothingMiscounted, PTL DEF Spec

(* After an overrun a transfer cannot end before it has sent 2^32 bytes    *)
(* more than the narrowed size (OverrunsInFull).                           *)
THEOREM OverrunsRunOn == Spec => []OverrunsInFull
<1>1. TypeOK /\ WrappedAccount /\ Emptied => OverrunsInFull
  <2> SUFFICES ASSUME TypeOK, WrappedAccount, Emptied, phase = "ended", overrun
               PROVE  sent >= Narrowed(announced) + Modulus
    BY DEF OverrunsInFull
  <2>1. sent + in_pipe + nbytes >= Narrowed(announced) + Modulus
    BY DEF WrappedAccount
  <2>2. in_pipe = 0 /\ nbytes = 0
    BY DEF Emptied
  <2> QED
    BY <2>1, <2>2 DEF TypeOK
<1> QED
  BY <1>1, TypeCorrect, OverrunKept, EndsEmpty, PTL

=============================================================================
