----------------------------- MODULE MCTransfer -------------------------------
(* Instance of Transfer for model checking.                                *)
EXTENDS Transfer

\* Empty, shorter than a pipe, a pipe, longer than one, and beyond Modulus.
MCLengths == {0, 2, 3, 5, 9}

=============================================================================
