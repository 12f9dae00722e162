---------------------------- MODULE MCLoopEngine ----------------------------
(* Two register tables: the one a program is started on, and another one   *)
(* that follows on the same wires.                                         *)
EXTENDS LoopEngine
=============================================================================
