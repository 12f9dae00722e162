------------------------- MODULE MCBytecodeMachine --------------------------
(* Programs of three instructions over two registers of three bits, which  *)
(* hold the tested bit, the one below it and one more below or above.      *)
EXTENDS BytecodeMachine
=============================================================================
