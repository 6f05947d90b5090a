------------------------------ MODULE MCReceive ------------------------------
(***************************************************************************)
(* Pieces from which good request lines, header lines and bodies can be    *)
(* put together, and most of the bad ones: spaces doubled, before the line *)
(* or after it, two lines run together, a line without a colon.            *)
(***************************************************************************)
EXTENDS Receive

CONSTANTS get, word, http

MCPieces == {<<get, SP, word, SP, http>>, <<NL, word, Colon, word>>, <<NL>>, <<SP>>}

=============================================================================
